---- MODULE Spec2Model ----
(***************************************************************************)
(* Processing pipeline of the interview assistant: the orchestrator        *)
(* (electron/ProcessingHelper.ts), the provider adapters                   *)
(* (electron/models/*.ts), the config store (ConfigHelper) and the IPC     *)
(* entry points (electron/ipcHandlers.ts).                                 *)
(*                                                                         *)
(* A "run" is one invocation of ProcessingHelper.processScreenshots.  The  *)
(* method is async: between two suspension points its code runs without    *)
(* interleaving, so each action below is the code between two awaits that  *)
(* yield to the event loop (image loading and the pending provider         *)
(* request of Adapter.vision / Adapter.complete).                          *)
(***************************************************************************)
EXTENDS Integers, Sequences, FiniteSets, TLC

(* ------------------------------ bounds --------------------------------- *)
\* invocations of processScreenshots in one behaviour
MaxRuns == 2
\* config-updated notifications in one behaviour
MaxConfigUpdates == 1
\* screenshots a queue can hold
MaxShots == 1
\* invocations of processScreenshots in one behaviour of SpecQueues
MaxRunsQueues == 4

(* ---------------------------- data domains ----------------------------- *)
Providers == {"openai", "claude"}

OPENAI_MODELS == {"gpt-4o", "gpt-4o-mini", "gpt-4-turbo", "gpt-3.5-turbo"}

CLAUDE_MODELS == {"claude-3-opus-20240229", "claude-3-sonnet-20240229",
                  "claude-3-haiku-20240307", "claude-3-5-sonnet-20240620"}

\* the model ids a settings change enters here: one text-only for OpenAI and
\* unrecognised for Claude, one unrecognised for both
ModelIds == {"gpt-3.5-turbo", "unknown-model"}

ApiKeys == {"", "sk"}

defaultConfig ==
    [activeProvider |-> "openai",
     providers |-> [openai |-> [apiKey |-> "", model |-> "gpt-4o"],
                    claude |-> [apiKey |-> "", model |-> "claude-3-sonnet-20240229"]]]

\* this.modelAdapter = null
NoAdapter == [provider |-> "none", apiKey |-> "", model |-> "", gen |-> 0]

(* error messages (result.error / Error.message) *)
MsgNotConfiguredOrInvalid == "API key not configured or invalid. Please check your settings."
MsgNotConfigured == "API key not configured. Please check your settings."
MsgParse == "Failed to parse problem information. Please try again or use clearer screenshots."
MsgNoProblemInfo == "No problem info available"
MsgInvalidKey == "Invalid API key"
MsgRateLimit == "Rate limit exceeded or insufficient quota"
MsgClientNotInitialized == "client not initialized"
MsgNoVision == "Model does not support vision capabilities"
MsgProvider5xx == "provider: internal server error"
MsgProviderOther == "provider: request failed"
MsgGenerate == "Failed to generate solutions"
MsgLoad == "ENOENT: no such file or directory"

(* ------------------------------- state --------------------------------- *)
VARIABLES
    config,            \* the persisted config (ConfigHelper)
    cfgUpdates,        \* number of config-updated notifications so far
    modelAdapter,      \* ProcessingHelper.modelAdapter
    currentProcessingAbortController,       \* 0 = null, else the run that created it
    currentExtraProcessingAbortController,  \* 0 = null, else the run that created it
    aborted,           \* controllers on which abort() was called
    problemInfo,       \* deps.getProblemInfo(): 0 = null, else the run that extracted it
    hasDebugged,       \* deps.setHasDebugged
    view,              \* deps.getView(): "queue" | "solutions"
    screenshotQueue,   \* screenshotHelper.getScreenshotQueue()
    extraScreenshotQueue, \* screenshotHelper.getExtraScreenshotQueue()
    nRuns,             \* invocations of processScreenshots so far
    runs,              \* per run: position, captured values and its trace
    lastOp,            \* whether the latest step was a cancel, a reset, or another
    lastSent           \* what the latest step sent to the renderer

vars == <<config, cfgUpdates, modelAdapter, currentProcessingAbortController,
          currentExtraProcessingAbortController, aborted, problemInfo, hasDebugged,
          view, screenshotQueue, extraScreenshotQueue, nRuns, runs, lastOp, lastSent>>

RunIds == 1..MaxRunsQueues

\* a run that has not been started
NoRun ==
    [kind |-> "none", pc |-> "idle", images |-> <<>>, log |-> <<>>,
     startAdapter |-> NoAdapter, visionAdapter |-> NoAdapter,
     completeAdapter |-> NoAdapter, signalAbortedAtCall |-> FALSE,
     extraction |-> <<>>, outcome |-> "none",
     error |-> "", cancelMark |-> 0, cancelledIn |-> "", abortedIn |-> "",
     context |-> 0, infoAtStart |-> 0, visionOutcome |-> "", completeOutcome |-> "",
     solutionResponse |-> <<"none">>, solution |-> [code |-> <<"none">>, thoughts |-> <<>>,
                  time_complexity |-> <<>>, space_complexity |-> <<>>]]

InFlightPcs == {"loading", "extracting", "solving", "debugging"}

\* The record of a run is kept while the run is in flight and in the state
\* in which it ends; the step after that retires it (nothing of the
\* program reads it: it is the history the properties are stated on).
Retired == [NoRun EXCEPT !.pc = "retired"]

retire(rs) == [r \in DOMAIN rs |-> IF rs[r].pc = "done" THEN Retired ELSE rs[r]]

\* an AbortController is dropped with the run that created it
live(ab, rs) == {c \in ab : rs[c].pc # "done"}

InFlight(r) == runs[r].pc \in InFlightPcs

(* ------------------------- provider adapters --------------------------- *)
\* OpenAIAdapter.validateModel / ClaudeAdapter.validateModel
\* a validation that accepts every id
validateModelKeeping(provider, model) == model

validateModel(provider, model) ==
    IF provider = "openai"
    THEN (IF model \in OPENAI_MODELS THEN model ELSE "gpt-4o")
    ELSE (IF model \in CLAUDE_MODELS THEN model ELSE "claude-3-sonnet-20240229")

\* a factory that builds an adapter for every provider id
createModelAdapterAnyProvider(provider, apiKey, model, gen) ==
    [provider |-> provider, apiKey |-> apiKey,
     model |-> validateModel(provider, model), gen |-> gen]

\* createModelAdapter: the adapter of a known provider, none for any other
\* provider (the factory throws and initializeModelAdapter catches)
createModelAdapter(provider, apiKey, model, gen) ==
    IF provider \in {"openai", "claude"}
    THEN [provider |-> provider, apiKey |-> apiKey,
          model |-> validateModel(provider, model), gen |-> gen]
    ELSE NoAdapter

\* an initialisation that builds the adapter without looking at the key
initializeModelAdapterUnkeyed(cfg, gen) ==
    createModelAdapter(cfg.activeProvider,
                       cfg.providers[cfg.activeProvider].apiKey,
                       cfg.providers[cfg.activeProvider].model, gen)

\* ProcessingHelper.initializeModelAdapter: the value it leaves in modelAdapter
initializeModelAdapter(cfg, gen) ==
    IF cfg.activeProvider \in DOMAIN cfg.providers
       /\ cfg.providers[cfg.activeProvider].apiKey # ""
    THEN createModelAdapter(cfg.activeProvider,
                            cfg.providers[cfg.activeProvider].apiKey,
                            cfg.providers[cfg.activeProvider].model, gen)
    ELSE NoAdapter

\* an adapter whose client is built whatever the key
hasClientAlways(adapter) == TRUE

\* the adapter's client field: built by initializeClient unless the key is empty
hasClient(adapter) == adapter.apiKey # ""

\* a capability table in which every model has vision
supportsVisionAlways(adapter) == TRUE

\* supportsVision(): the static capability tables
supportsVision(adapter) ==
    IF adapter.provider = "openai"
    THEN adapter.model \in {"gpt-4o", "gpt-4o-mini", "gpt-4-turbo"}
    ELSE adapter.model \in CLAUDE_MODELS

\* what vision() throws before it issues a request ("" = nothing)
visionPrecheck(adapter) ==
    IF adapter.provider = "openai"
    THEN (IF ~hasClient(adapter) THEN MsgClientNotInitialized
          ELSE IF ~supportsVision(adapter) THEN MsgNoVision ELSE "")
    ELSE (IF ~supportsVision(adapter) THEN MsgNoVision
          ELSE IF ~hasClient(adapter) THEN MsgClientNotInitialized ELSE "")

\* what complete() throws before it issues a request ("" = nothing)
completePrecheck(adapter) ==
    IF ~hasClient(adapter) THEN MsgClientNotInitialized ELSE ""

\* the ways the provider request of an adapter call can end
ProviderOutcomes == {"ok", "401", "429", "500"}

\* The outcomes of the request an adapter call issues.  options.signal is
\* not part of the request either adapter builds, so whether the run's
\* signal is aborted does not enter.
requestOutcomes(adapter, signalAborted) == ProviderOutcomes

\* new OpenAI({ ..., maxRetries: 2 }): the SDK client re-issues a request
\* that was answered 429 or 5xx, up to maxRetries times, before the call
\* fails (the Anthropic client is built with the SDK's default, the same)
maxRetries == 2

RetriedOutcomes == {"429", "500"}

\* how many requests of a call can have been answered with a retried status
\* before the answer that settles the call
attemptsBefore(outcome) ==
    IF outcome \in RetriedOutcomes THEN {maxRetries} ELSE 0..maxRetries

\* the run record with the requests the SDK re-issued during the call
withRetries(run, attempts) ==
    [run EXCEPT !.log = @ \o [i \in 1..attempts |-> "request"]]

\* the message of the error an adapter call throws for a failed request
adapterError(outcome) ==
    CASE outcome = "401" -> MsgInvalidKey
      [] outcome = "429" -> MsgRateLimit
      [] outcome = "500" -> MsgProvider5xx
      [] OTHER -> MsgProviderOther

(* ---------------------- extraction response parsing -------------------- *)
\* an extraction response is a sequence of tokens: code-fence markers, a
\* JSON object, a JSON array, the JSON literal null, or prose
FenceTokens == {"fence:json", "fence"}

ExtractionResponses ==
    { <<"fence:json", "{..}", "fence">>, <<"null">>, <<"[]">>, <<"prose", "{..}">> }

\* the responses among them that are the expected record once stripped
RecordResponses == { <<"fence:json", "{..}", "fence">> }

\* responseText.replace(<fence markers>, '').trim(): every marker is removed
stripFences(resp) == SelectSeq(resp, LAMBDA t : t \notin FenceTokens)

\* JSON.parse: [ok, value]; value is "object", "array" or "null" (the one
\* falsy value among them)
jsonParse(text) ==
    IF Len(text) = 1 /\ text[1] = "{..}" THEN [ok |-> TRUE, value |-> "object"]
    ELSE IF Len(text) = 1 /\ text[1] = "[]" THEN [ok |-> TRUE, value |-> "array"]
    ELSE IF Len(text) = 1 /\ text[1] = "null" THEN [ok |-> TRUE, value |-> "null"]
    ELSE [ok |-> FALSE, value |-> "null"]

\* result.error?.includes("API Key") || result.error?.includes("API key")
mentionsApiKey(msg) ==
    msg \in {MsgNotConfiguredOrInvalid, MsgNotConfigured, MsgInvalidKey}

(* ------------------------------ run traces ----------------------------- *)
\* entries of a run's trace that are not events sent to the renderer
InternalEntries == {"vision", "complete", "request", "setProblemInfo",
                    "setProblemInfo:null", "setHasDebugged", "clearExtraQueue"}

Sent(entries) == SelectSeq(entries, LAMBDA e : e \notin InternalEntries)

(* ------------------------------- Init ---------------------------------- *)
\* the configs the store holds at start-up here: the default config with
\* a Claude key entered, and an OpenAI key entered or not
InitConfigs ==
    { [defaultConfig EXCEPT !.providers.openai.apiKey = ko,
                            !.providers.claude.apiKey = "sk"] : ko \in ApiKeys }

\* the state after the ProcessingHelper constructor
Init ==
    /\ config \in InitConfigs
    /\ cfgUpdates = 0
    /\ modelAdapter = initializeModelAdapter(config, 0)
    /\ currentProcessingAbortController = 0
    /\ currentExtraProcessingAbortController = 0
    /\ aborted = {}
    /\ problemInfo = 0
    /\ hasDebugged = FALSE
    /\ view = "queue"
    /\ screenshotQueue = <<>>
    /\ extraScreenshotQueue = <<>>
    /\ nRuns = 0
    /\ runs = [r \in RunIds |-> NoRun]
    /\ lastOp = "init"
    /\ lastSent = <<>>

(* -------------------------- processScreenshots ------------------------- *)
\* the run record once processScreenshots has handled a failed result of
\* processScreenshotsHelper; pre is what the helper logged before failing
failPrimary(run, pre, msg) ==
    [run EXCEPT !.log = @ \o pre \o
                    <<IF mentionsApiKey(msg) THEN "API_KEY_INVALID"
                      ELSE "INITIAL_SOLUTION_ERROR">>,
                !.pc = "done", !.outcome = "failed", !.error = msg]

\* the run record once processScreenshots has handled a failed result of
\* processExtraScreenshotsHelper
failSecondary(run, pre, msg) ==
    [run EXCEPT !.log = @ \o pre \o <<"DEBUG_ERROR">>,
                !.pc = "done", !.outcome = "failed", !.error = msg]

\* the test left out
adapterNeverMissing(adapter) == FALSE

\* the test that opens processScreenshots and processScreenshotsHelper
adapterMissing(adapter) == adapter = NoAdapter

\* a test that never finds the queue empty
noScreenshotsNever(queue) == FALSE

\* screenshotQueue.length === 0 / extraScreenshotQueue.length === 0
noScreenshots(queue) == queue = <<>>

\* processScreenshots up to its first suspension (the loading of the images)
StartRun(limit) ==
    LET r == nRuns + 1
        adapter == IF adapterMissing(modelAdapter)
                   THEN initializeModelAdapter(config, cfgUpdates)
                   ELSE modelAdapter
        started(kind, entries, pc, images) ==
            [NoRun EXCEPT !.kind = kind, !.log = entries, !.pc = pc,
                          !.images = images, !.startAdapter = adapter,
                          !.infoAtStart = IF kind = "secondary" THEN problemInfo ELSE 0]
        run == IF adapterMissing(adapter)
               THEN started("notConfigured", <<"API_KEY_INVALID">>, "done", <<>>)
               ELSE IF view = "queue"
               THEN (IF noScreenshots(screenshotQueue)
                     THEN started("primary", <<"INITIAL_START", "NO_SCREENSHOTS">>,
                                  "done", <<>>)
                     ELSE started("primary", <<"INITIAL_START">>, "loading",
                                  screenshotQueue))
               ELSE (IF noScreenshots(extraScreenshotQueue)
                     THEN started("secondary", <<"NO_SCREENSHOTS">>, "done", <<>>)
                     ELSE started("secondary", <<"DEBUG_START">>, "loading",
                                  screenshotQueue \o extraScreenshotQueue))
    IN
    /\ nRuns < limit
    /\ nRuns' = r
    /\ modelAdapter' = adapter
    /\ runs' = [retire(runs) EXCEPT ![r] = run]
    /\ currentProcessingAbortController' =
          IF run.kind = "primary" /\ run.pc = "loading" THEN r
          ELSE currentProcessingAbortController
    /\ currentExtraProcessingAbortController' =
          IF run.kind = "secondary" /\ run.pc = "loading" THEN r
          ELSE currentExtraProcessingAbortController
    /\ lastSent' = Sent(run.log)
    /\ aborted' = live(aborted, runs)
    /\ UNCHANGED <<config, cfgUpdates, problemInfo, hasDebugged, view,
                   screenshotQueue, extraScreenshotQueue>>

\* ProcessingHelper.processScreenshots, called directly
ProcessScreenshots ==
    /\ StartRun(MaxRuns)
    /\ lastOp' = "other"

\* configHelper.hasApiKey(activeProvider)
hasApiKey(cfg) ==
    /\ cfg.activeProvider \in DOMAIN cfg.providers
    /\ cfg.providers[cfg.activeProvider].apiKey # ""

\* ipcMain.handle("process-screenshots"): the key is checked first
IpcProcessScreenshots ==
    /\ lastOp' = "other"
    /\ IF hasApiKey(config)
       THEN StartRun(MaxRuns)
       ELSE /\ lastSent' = <<"API_KEY_INVALID">>
            /\ aborted' = live(aborted, runs)
            /\ runs' = retire(runs)
            /\ UNCHANGED <<config, cfgUpdates, modelAdapter,
                           currentProcessingAbortController,
                           currentExtraProcessingAbortController, problemInfo,
                           hasDebugged, view, screenshotQueue,
                           extraScreenshotQueue, nRuns>>

(* --------------- the image loading of a run has finished --------------- *)
\* processScreenshotsHelper from its entry to its first provider request
\* (or to the result it returns without one): the run record
extractionStart(run, adapter, signalAborted) ==
    IF adapterMissing(adapter)
    THEN failPrimary(run, <<>>, MsgNotConfiguredOrInvalid)
    ELSE IF visionPrecheck(adapter) # ""
    THEN failPrimary([run EXCEPT !.visionAdapter = adapter],
                     <<"status20", "vision">>, visionPrecheck(adapter))
    ELSE [run EXCEPT !.log = @ \o <<"status20", "vision", "request">>,
                     !.pc = "extracting", !.visionAdapter = adapter,
                     !.signalAbortedAtCall = signalAborted]

\* processExtraScreenshotsHelper without its test of the stored problem info
debugStartUnchecked(run, adapter, info, signalAborted) ==
    IF adapterMissing(adapter)
    THEN failSecondary(run, <<>>, MsgNotConfigured)
    ELSE [run EXCEPT !.log = @ \o <<"status30", "status60", "vision", "request">>,
                     !.pc = "debugging", !.visionAdapter = adapter,
                     !.context = info, !.signalAbortedAtCall = signalAborted]

\* processExtraScreenshotsHelper from its entry to its provider request
debugStart(run, adapter, info, signalAborted) ==
    IF info = 0
    THEN failSecondary(run, <<>>, MsgNoProblemInfo)
    ELSE IF adapterMissing(adapter)
    THEN failSecondary(run, <<>>, MsgNotConfigured)
    ELSE IF visionPrecheck(adapter) # ""
    THEN failSecondary([run EXCEPT !.context = info, !.visionAdapter = adapter],
                       <<"status30", "status60", "vision">>, visionPrecheck(adapter))
    ELSE [run EXCEPT !.log = @ \o <<"status30", "status60", "vision", "request">>,
                     !.pc = "debugging", !.visionAdapter = adapter,
                     !.context = info, !.signalAbortedAtCall = signalAborted]

\* a catch block that ends the run without sending anything
loadFailedUnreported(run) ==
    [run EXCEPT !.pc = "done", !.outcome = "failed", !.error = MsgLoad]

\* the catch block of processScreenshots (a throw while loading the images)
loadFailed(run) ==
    IF run.kind = "primary"
    THEN [run EXCEPT !.log = @ \o <<"INITIAL_SOLUTION_ERROR", "INITIAL_SOLUTION_ERROR">>,
                     !.pc = "done", !.outcome = "failed", !.error = MsgLoad]
    ELSE failSecondary(run, <<>>, MsgLoad)

\* await Promise.all(... getImagePreview / readFileSync ...) settles
LoadImages(r, ok) ==
    LET adapter == IF adapterMissing(modelAdapter) /\ ok /\ runs[r].kind = "primary"
                   THEN initializeModelAdapter(config, cfgUpdates)
                   ELSE modelAdapter
        run == IF ~ok THEN loadFailed(runs[r])
               ELSE IF runs[r].kind = "primary"
               THEN extractionStart(runs[r], adapter, r \in aborted)
               ELSE debugStart(runs[r], adapter, problemInfo, r \in aborted)
        finished == run.pc = "done"
    IN
    /\ runs[r].pc = "loading"
    /\ runs' = [retire(runs) EXCEPT ![r] = run]
    /\ modelAdapter' = adapter
    /\ view' = IF finished /\ run.kind = "primary" THEN "queue" ELSE view
    /\ currentProcessingAbortController' =
          IF finished /\ run.kind = "primary" THEN 0
          ELSE currentProcessingAbortController
    /\ currentExtraProcessingAbortController' =
          IF finished /\ run.kind = "secondary" THEN 0
          ELSE currentExtraProcessingAbortController
    /\ lastOp' = "other"
    /\ lastSent' = Sent(SubSeq(run.log, Len(runs[r].log) + 1, Len(run.log)))
    /\ aborted' = live(aborted, runs)
    /\ UNCHANGED <<config, cfgUpdates, problemInfo, hasDebugged,
                   screenshotQueue, extraScreenshotQueue, nRuns>>

(* ------------- the extraction call (Adapter.vision) settles ------------ *)
\* generateSolutionsHelper up to its provider request, and what
\* processScreenshotsHelper makes of a result without one: the run record.
\* pre is what was logged since the vision call returned.
\* generateSolutionsHelper without its test of the stored problem info
solutionStartUnchecked(run, pre, info, adapter) ==
    IF adapterMissing(adapter)
    THEN failPrimary(run, pre, MsgNotConfigured)
    ELSE [run EXCEPT !.log = @ \o pre \o <<"status60", "complete", "request">>,
                     !.pc = "solving", !.completeAdapter = adapter]

solutionStart(run, pre, info, adapter) ==
    IF info = 0
    THEN failPrimary(run, pre, MsgNoProblemInfo)
    ELSE IF adapterMissing(adapter)
    THEN failPrimary(run, pre, MsgNotConfigured)
    ELSE IF completePrecheck(adapter) # ""
    THEN failPrimary([run EXCEPT !.completeAdapter = adapter],
                     pre \o <<"status60", "complete">>, completePrecheck(adapter))
    ELSE [run EXCEPT !.log = @ \o pre \o <<"status60", "complete", "request">>,
                     !.pc = "solving", !.completeAdapter = adapter]

\* processScreenshotsHelper after the vision call: parse, store, go on
afterExtraction(run, r, outcome, resp, adapter) ==
    IF outcome # "ok"
    THEN failPrimary([run EXCEPT !.visionOutcome = outcome], <<>>, adapterError(outcome))
    ELSE LET parsed == jsonParse(stripFences(resp))
             withResp == [run EXCEPT !.extraction = resp, !.visionOutcome = outcome]
         IN IF ~parsed.ok
            THEN failPrimary(withResp, <<>>, MsgParse)
            ELSE IF parsed.value = "null"
            THEN solutionStart(withResp,
                               <<"status40", "setProblemInfo:null", "PROBLEM_EXTRACTED">>,
                               0, adapter)
            ELSE solutionStart(withResp,
                               <<"status40", "setProblemInfo", "PROBLEM_EXTRACTED">>,
                               r, adapter)

VisionReturns(r, outcome, resp, attempts) ==
    LET run == afterExtraction(withRetries(runs[r], attempts), r, outcome, resp,
                               modelAdapter)
        finished == run.pc = "done"
        stored == \E i \in 1..Len(run.log) :
                     i > Len(runs[r].log) /\ run.log[i] \in {"setProblemInfo", "setProblemInfo:null"}
        storedNull == \E i \in 1..Len(run.log) :
                     i > Len(runs[r].log) /\ run.log[i] = "setProblemInfo:null"
    IN
    /\ runs[r].pc = "extracting"
    /\ outcome \in requestOutcomes(runs[r].visionAdapter, r \in aborted)
    /\ resp \in (IF outcome = "ok" THEN ExtractionResponses ELSE {<<>>})
    /\ attempts \in attemptsBefore(outcome)
    /\ runs' = [retire(runs) EXCEPT ![r] = run]
    /\ problemInfo' = IF stored THEN (IF storedNull THEN 0 ELSE r) ELSE problemInfo
    /\ view' = IF finished THEN "queue" ELSE view
    /\ currentProcessingAbortController' =
          IF finished THEN 0 ELSE currentProcessingAbortController
    /\ lastOp' = "other"
    /\ lastSent' = Sent(SubSeq(run.log, Len(runs[r].log) + 1, Len(run.log)))
    /\ aborted' = live(aborted, runs)
    /\ UNCHANGED <<config, cfgUpdates, modelAdapter,
                   currentExtraProcessingAbortController, hasDebugged,
                   screenshotQueue, extraScreenshotQueue, nRuns>>

(* ------------------- solution response processing -------------------- *)
\* a solution response is a sequence of tokens: code-fence markers, code,
\* prose, and section labels followed by the text of the section
InterviewModes == {"coding", "system_design", "react", "sql", "linux",
                   "certification", "other"}

SolutionResponses ==
    { <<>>,
      <<"prose">>,
      <<"prose", "fence", "code", "fence", "Explanation:", "text">> }

\* solution responses as text: a fenced block followed by complexity and
\* narrative sections that end in different ways
TextResponses ==
    { <<"fence", "code", "fence", "nl",
        "Time complexity:", "sp", "O(1)", "sp", "-", "sp", "constant work">>,
      <<"fence", "code", "fence", "nl",
        "Time complexity:", "sp", "O(1)", "sp", "-", "sp", "constant work", "nl">>,
      <<"Time complexity:", "sp", "O(n)", "sp", "linear scan", "nl",
        "Space complexity:", "sp", "O(1)", "sp", "because", "sp", "in place", "nl">>,
      <<"Time complexity:", "sp", "linear", "nl",
        "Space complexity:", "sp", "constant", "nl", "Done">>,
      <<"Time complexity:", "sp", "O(n)", "sp", "linear scan", "nl", "nl", "prose">>,
      <<"Time complexity:", "sp", "nl", "Space complexity:", "sp", "O(1)">>,
      <<"Time complexity:", "sp", "one pass,", "sp", "O(n)", "sp", "overall", "nl">>,
      <<"Thoughts:", "nl", "-", "sp", "idea", "nl", "-", "sp", "nl",
        "Time complexity:", "sp", "O(n)", "nl">>,
      <<"Thoughts:", "sp", "nl", "sp", "nl", "Time complexity:", "sp", "O(n)", "nl">>,
      <<"fence", "code", "fence", "nl", "Explanation:", "nl", "Performance:", "sp", "fast">>,
      <<"fence", "code", "fence", "nl", "Explanation:", "sp", "first", "nl", "nl",
        "second", "nl", "Performance:", "sp", "fast">>,
      <<"Answer:", "sp", "B", "nl", "Explanation:", "sp", "nl", "nl", "sp", "nl",
        "Additional Context:", "sp", "none">> }

\* positions of the fence markers of a response
fences(resp) == {i \in 1..Len(resp) : resp[i] = "fence"}

Min(S) == CHOOSE x \in S : \A y \in S : x <= y

Max(S) == CHOOSE x \in S : \A y \in S : x >= y

\* Text is a sequence of tokens: "nl" is a line break, "sp" a blank, "-" a
\* dash (and the marker of a list item), "fence" a code-fence marker with its
\* language tag and line break; every other token is a label or a word.
SpaceTokens == {"sp", "nl"}

BulletTokens == {"-"}

NotationTokens == {"O(1)", "O(n)"}

\* tokens whose first character is a letter ([A-Z] under the i flag)
startsWithLetter(token) == token \notin SpaceTokens \cup BulletTokens \cup {"fence"}

\* String.prototype.trim
trim(text) ==
    LET solid == {i \in 1..Len(text) : text[i] \notin SpaceTokens}
    IN IF solid = {} THEN <<>> ELSE SubSeq(text, Min(solid), Max(solid))

\* the first fenced block: match(<fence> ... <fence>) with a lazy body
fencedBlock(resp) ==
    IF Cardinality(fences(resp)) < 2
    THEN [found |-> FALSE, inner |-> <<>>]
    ELSE LET i == Min(fences(resp))
             j == Min(fences(resp) \ {i})
         IN [found |-> TRUE, inner |-> trim(SubSeq(resp, i + 1, j - 1))]

\* match(<label>: ... (<stop>|$)): the text after the first of the labels,
\* up to the first stop label after it or the end of the response
section(resp, labels, stops) ==
    LET starts == {i \in 1..Len(resp) : resp[i] \in labels}
    IN IF starts = {}
       THEN <<>>
       ELSE LET i == Min(starts)
                ends == {j \in (i + 1)..Len(resp) : resp[j] \in stops}
                j == IF ends = {} THEN Len(resp) + 1 ELSE Min(ends)
            IN SubSeq(resp, i + 1, j - 1)

\* String.prototype.split on n line breaks in a row ('\n' or '\n\n')
RECURSIVE split(_, _)
split(text, n) ==
    LET at == {i \in 1..(Len(text) - n + 1) :
                  \A k \in i..(i + n - 1) : text[k] = "nl"}
    IN IF at = {}
       THEN <<text>>
       ELSE <<SubSeq(text, 1, Min(at) - 1)>>
            \o split(SubSeq(text, Min(at) + n, Len(text)), n)

\* .filter(Boolean) on a list of strings
nonEmpty(items) == SelectSeq(items, LAMBDA item : item # <<>>)

\* .map(s => s.trim())
trimEach(items) == [k \in 1..Len(items) |-> trim(items[k])]

\* the end of the line that holds position c (the position before the next
\* line break, or the end of the text)
lineEnd(text, c) ==
    LET breaks == {k \in c..Len(text) : text[k] = "nl"}
    IN IF breaks = {} THEN Len(text) ELSE Min(breaks) - 1

\* a list marker that only blanks separate from the start of its line
bulletAt(text, b) ==
    /\ text[b] \in BulletTokens
    /\ LET breaks == {k \in 1..(b - 1) : text[k] = "nl"}
           from == IF breaks = {} THEN 1 ELSE Max(breaks) + 1
       IN \A m \in from..(b - 1) : text[m] = "sp"

\* match(/(?:^|\n)\s*(?:[-*•]|\d+\.)\s*(.*)/g) from position pos on, each
\* match with its marker replaced away: the blanks and line breaks after a
\* marker are skipped, and the rest of the line reached is the item
RECURSIVE bulletItems(_, _)
bulletItems(text, pos) ==
    LET marks == {b \in pos..Len(text) : bulletAt(text, b)}
    IN IF marks = {}
       THEN <<>>
       ELSE LET b == Min(marks)
                solid == {k \in (b + 1)..Len(text) : text[k] \notin SpaceTokens}
                c == IF solid = {} THEN Len(text) + 1 ELSE Min(solid)
                e == IF c > Len(text) THEN Len(text) ELSE lineEnd(text, c)
            IN <<SubSeq(text, c, e)>> \o bulletItems(text, e + 1)

\* the items of a narrative section: its list items when it has a list
\* marker, its lines otherwise; trimmed, empty ones dropped
listItems(text) ==
    IF \E b \in 1..Len(text) : bulletAt(text, b)
    THEN nonEmpty(trimEach(bulletItems(text, 1)))
    ELSE nonEmpty(trimEach(split(text, 1)))

\* the paragraphs of a narrative section: split on blank lines, empty
\* pieces dropped, then trimmed
paragraphs(text) ==
    IF text = <<>> THEN <<>> ELSE trimEach(nonEmpty(split(text, 2)))

orDefault(items, default) == IF items # <<>> THEN items ELSE <<<<default>>>>

\* what the lookahead of each complexity pattern accepts after the line
\* break and the blanks
afterTime(token) == token = "Space complexity:"

afterSpace(token) == startsWithLetter(token)

\* match(/<label>:?\s*([^\n]+(?:\n[^\n]+)*?)(?=\n\s*(?:<after>|$))/i): the
\* capture starts after the label and the blanks and line breaks that follow
\* it (as many as leave a match), holds whole non-empty lines, as few as
\* possible, and must be followed by a line break and then, after blanks,
\* by a token of `after` or by the end of the response
complexityMatch(resp, label) ==
    LET after(token) == IF label = "Time complexity:" THEN afterTime(token)
                        ELSE afterSpace(token)
        followed(e) ==
            /\ e < Len(resp)
            /\ resp[e + 1] = "nl"
            /\ LET solid == {k \in (e + 2)..Len(resp) : resp[k] \notin SpaceTokens}
               IN solid = {} \/ after(resp[Min(solid)])
        captures(a, e) ==
            /\ a <= e
            /\ resp[a] # "nl"
            /\ resp[e] # "nl"
            /\ \A k \in a..(e - 1) : ~(resp[k] = "nl" /\ resp[k + 1] = "nl")
            /\ followed(e)
        starts(i) ==
            {a \in (i + 1)..Len(resp) :
                /\ \A k \in (i + 1)..(a - 1) : resp[k] \in SpaceTokens
                /\ \E e \in a..Len(resp) : captures(a, e)}
        labels == {i \in 1..Len(resp) : resp[i] = label /\ starts(i) # {}}
    IN IF labels = {}
       THEN [found |-> FALSE, text |-> <<>>]
       ELSE LET a == Max(starts(Min(labels)))
                e == Min({e \in a..Len(resp) : captures(a, e)})
            IN [found |-> TRUE, text |-> SubSeq(resp, a, e)]

DefaultTimeComplexity ==
    <<"O(n)", "sp", "-", "sp", "Linear time complexity because we only iterate through the array once.">>

DefaultSpaceComplexity ==
    <<"O(n)", "sp", "-", "sp", "Linear space complexity because we store elements in the hashmap.">>

\* a normalisation that only trims
normaliseComplexityRaw(text) == trim(text)

\* the text of a matched complexity section as the result carries it: given
\* a notation when it has none, and a dash after its notation when it has
\* neither a dash nor 'because'
normaliseComplexity(text) ==
    LET trimmed == trim(text)
        notations == {i \in 1..Len(trimmed) : trimmed[i] \in NotationTokens}
    IN IF notations = {}
       THEN <<"O(n)", "sp", "-", "sp">> \o trimmed
       ELSE IF \A i \in 1..Len(trimmed) : trimmed[i] \notin {"-", "because"}
       THEN LET n == Min(notations)
                rest == trim(SubSeq(trimmed, 1, n - 1)
                             \o SubSeq(trimmed, n + 1, Len(trimmed)))
            IN <<trimmed[n], "sp", "-", "sp">> \o rest
       ELSE trimmed

timeComplexity(resp) ==
    LET m == complexityMatch(resp, "Time complexity:")
    IN IF m.found THEN normaliseComplexity(m.text) ELSE DefaultTimeComplexity

spaceComplexity(resp) ==
    LET m == complexityMatch(resp, "Space complexity:")
    IN IF m.found THEN normaliseComplexity(m.text) ELSE DefaultSpaceComplexity

\* a processor that gives up when the response holds no fenced block
processCodingSolutionStrict(resp) ==
    [success |-> fencedBlock(resp).found,
     data |-> [code |-> fencedBlock(resp).inner, thoughts |-> <<>>,
               time_complexity |-> timeComplexity(resp),
               space_complexity |-> spaceComplexity(resp)]]

processCodingSolution(resp) ==
    [success |-> TRUE,
     data |-> [code |-> IF fencedBlock(resp).found THEN fencedBlock(resp).inner
                        ELSE resp,
               thoughts |-> orDefault(
                   listItems(section(resp, {"Thoughts:", "Approach:"}, {"Time complexity:"})),
                   "Solution approach based on efficiency and readability"),
               time_complexity |-> timeComplexity(resp),
               space_complexity |-> spaceComplexity(resp)]]

processSystemDesignSolution(resp) ==
    [success |-> TRUE,
     data |-> [code |-> <<>>,
               thoughts |-> orDefault(
                   listItems(section(resp, {"Key Components:"}, {"Data Model:"})),
                   "System design approach based on requirements"),
               time_complexity |-> <<"N/A for system design">>,
               space_complexity |-> <<"N/A for system design">>]]

processReactSolution(resp) ==
    [success |-> TRUE,
     data |-> [code |-> fencedBlock(resp).inner,
               thoughts |-> orDefault(
                   IF listItems(section(resp, {"Component Structure:"}, {"State Management:"})) # <<>>
                   THEN listItems(section(resp, {"Component Structure:"}, {"State Management:"}))
                   ELSE listItems(section(resp, {"Key Features:"}, {"Potential Improvements:"})),
                   "React component design based on requirements"),
               time_complexity |-> <<"N/A for React components">>,
               space_complexity |-> <<"N/A for React components">>]]

processSQLSolution(resp) ==
    [success |-> TRUE,
     data |-> [code |-> fencedBlock(resp).inner,
               thoughts |-> orDefault(
                   paragraphs(section(resp, {"Explanation:"}, {"Performance:"})),
                   "SQL query design based on requirements"),
               time_complexity |->
                   IF trim(section(resp, {"Performance:"}, {"Alternative:"})) # <<>>
                   THEN trim(section(resp, {"Performance:"}, {"Alternative:"}))
                   ELSE <<"Depends on database indexes and query execution plan">>,
               space_complexity |->
                   <<"Depends on result set size and temporary tables used">>]]

processLinuxSolution(resp) ==
    [success |-> TRUE,
     data |-> [code |-> trim(section(resp, {"Commands:"}, {"Explanation:"})),
               thoughts |-> orDefault(
                   listItems(section(resp, {"Explanation:"}, {"Verification:"})),
                   "Linux commands based on requirements"),
               time_complexity |-> <<"N/A for Linux commands">>,
               space_complexity |-> <<"N/A for Linux commands">>]]

processCertificationSolution(resp) ==
    [success |-> TRUE,
     data |-> [code |-> trim(section(resp, {"Answer:"}, {"Explanation:"})),
               thoughts |-> orDefault(
                   paragraphs(section(resp, {"Explanation:"}, {"Additional Context:"})),
                   "Certification answer based on knowledge"),
               time_complexity |-> <<"N/A for certification exam">>,
               space_complexity |-> <<"N/A for certification exam">>]]

processSolutionResponse(resp, mode) ==
    CASE mode = "coding" -> processCodingSolution(resp)
      [] mode = "system_design" -> processSystemDesignSolution(resp)
      [] mode = "react" -> processReactSolution(resp)
      [] mode = "sql" -> processSQLSolution(resp)
      [] mode = "linux" -> processLinuxSolution(resp)
      [] mode = "certification" -> processCertificationSolution(resp)
      [] OTHER -> processCodingSolution(resp)

(* -------------- the solution call (Adapter.complete) settles ----------- *)
\* generateSolutionsHelper / processScreenshotsHelper / processScreenshots
\* after the complete call
afterSolution(run, outcome, resp, mode) ==
    LET returned == [run EXCEPT !.completeOutcome = outcome]
    IN IF outcome # "ok"
       THEN failPrimary(returned, <<>>, adapterError(outcome))
       ELSE LET result == processSolutionResponse(resp, mode)
                parsed == [returned EXCEPT !.solutionResponse = resp]
            IN IF ~result.success
               THEN failPrimary(parsed, <<>>, MsgGenerate)
               ELSE [parsed EXCEPT !.log = @ \o <<"clearExtraQueue", "status100",
                                                  "SOLUTION_SUCCESS", "SOLUTION_SUCCESS">>,
                                   !.pc = "done", !.outcome = "succeeded",
                                   !.solution = result.data]

\* resp is the content of the response (when there is one), mode the
\* interview mode the helper read from the config
CompleteReturns(r, outcome, resp, mode, attempts) ==
    LET run == afterSolution(withRetries(runs[r], attempts), outcome, resp, mode)
    IN
    /\ runs[r].pc = "solving"
    /\ outcome \in requestOutcomes(runs[r].completeAdapter, r \in aborted)
    /\ resp \in (IF outcome = "ok" THEN SolutionResponses ELSE {<<>>})
    /\ mode \in (IF outcome = "ok" THEN InterviewModes ELSE {"coding"})
    /\ attempts \in attemptsBefore(outcome)
    /\ runs' = [retire(runs) EXCEPT ![r] = run]
    /\ extraScreenshotQueue' =
          IF run.outcome = "succeeded" THEN <<>> ELSE extraScreenshotQueue
    /\ view' = IF run.outcome = "succeeded" THEN "solutions" ELSE "queue"
    /\ currentProcessingAbortController' = 0
    /\ lastOp' = "other"
    /\ lastSent' = Sent(SubSeq(run.log, Len(runs[r].log) + 1, Len(run.log)))
    /\ aborted' = live(aborted, runs)
    /\ UNCHANGED <<config, cfgUpdates, modelAdapter,
                   currentExtraProcessingAbortController, problemInfo,
                   hasDebugged, screenshotQueue, nRuns>>

(* ---------------- the debug call (Adapter.vision) settles -------------- *)
\* processExtraScreenshotsHelper / processScreenshots after the vision call
afterDebug(run, outcome) ==
    LET returned == [run EXCEPT !.visionOutcome = outcome]
    IN IF outcome # "ok"
       THEN failSecondary(returned, <<>>, adapterError(outcome))
       ELSE [returned EXCEPT !.log = @ \o <<"status100", "setHasDebugged", "DEBUG_SUCCESS">>,
                             !.pc = "done", !.outcome = "succeeded"]

DebugReturns(r, outcome, attempts) ==
    LET run == afterDebug(withRetries(runs[r], attempts), outcome)
    IN
    /\ runs[r].pc = "debugging"
    /\ attempts \in attemptsBefore(outcome)
    /\ outcome \in requestOutcomes(runs[r].visionAdapter, r \in aborted)
    /\ runs' = [retire(runs) EXCEPT ![r] = run]
    /\ hasDebugged' = IF run.outcome = "succeeded" THEN TRUE ELSE hasDebugged
    /\ currentExtraProcessingAbortController' = 0
    /\ lastOp' = "other"
    /\ lastSent' = Sent(SubSeq(run.log, Len(runs[r].log) + 1, Len(run.log)))
    /\ aborted' = live(aborted, runs)
    /\ UNCHANGED <<config, cfgUpdates, modelAdapter,
                   currentProcessingAbortController, problemInfo, view,
                   screenshotQueue, extraScreenshotQueue, nRuns>>

(* ------------------------ cancelOngoingRequests ------------------------ *)
\* cancelOngoingRequests without the two "= null" assignments
cancelKeepingControllers(s) ==
    LET wasCancelled == s.primary # 0 \/ s.extra # 0
    IN [primary |-> s.primary,
        extra |-> s.extra,
        aborted |-> s.aborted \cup ({s.primary, s.extra} \ {0}),
        problemInfo |-> 0,
        hasDebugged |-> FALSE,
        sent |-> IF wasCancelled THEN <<"NO_SCREENSHOTS">> ELSE <<>>]

\* cancelOngoingRequests sending NO_SCREENSHOTS whether or not it cancelled
cancelAlwaysNotifying(s) ==
    [primary |-> 0,
     extra |-> 0,
     aborted |-> s.aborted \cup ({s.primary, s.extra} \ {0}),
     problemInfo |-> 0,
     hasDebugged |-> FALSE,
     sent |-> <<"NO_SCREENSHOTS">>]

\* cancelOngoingRequests as a function of the fields it reads: the fields
\* it leaves and the events it sends
cancelOngoingRequests(s) ==
    LET wasCancelled == s.primary # 0 \/ s.extra # 0
    IN [primary |-> 0,
        extra |-> 0,
        aborted |-> s.aborted \cup ({s.primary, s.extra} \ {0}),
        problemInfo |-> 0,
        hasDebugged |-> FALSE,
        sent |-> IF wasCancelled THEN <<"NO_SCREENSHOTS">> ELSE <<>>]

\* the fields of the current state cancelOngoingRequests works on
cancelFields ==
    [primary |-> currentProcessingAbortController,
     extra |-> currentExtraProcessingAbortController,
     aborted |-> aborted,
     problemInfo |-> problemInfo,
     hasDebugged |-> hasDebugged,
     sent |-> <<>>]

\* every run in flight at a cancel remembers where it and its trace stood
\* (cancelMark, cancelledIn), and where it stood when its own controller
\* was aborted (abortedIn)
markCancelled(rs, controllers) ==
    [r \in RunIds |->
        IF rs[r].pc \in InFlightPcs /\ rs[r].cancelMark = 0
        THEN [rs[r] EXCEPT !.cancelMark = Len(rs[r].log),
                           !.cancelledIn = rs[r].pc,
                           !.abortedIn = IF r \in controllers THEN rs[r].pc ELSE ""]
        ELSE rs[r]]

CancelEffect(after) ==
    /\ currentProcessingAbortController' = after.primary
    /\ currentExtraProcessingAbortController' = after.extra
    /\ aborted' = live(after.aborted, runs)
    /\ problemInfo' = after.problemInfo
    /\ hasDebugged' = after.hasDebugged
    /\ runs' = markCancelled(retire(runs), after.aborted)

\* ProcessingHelper.cancelOngoingRequests, called directly
CancelOngoingRequests ==
    LET after == cancelOngoingRequests(cancelFields)
    IN
    /\ CancelEffect(after)
    /\ lastOp' = "cancel"
    /\ lastSent' = after.sent
    /\ UNCHANGED <<config, cfgUpdates, modelAdapter, view, screenshotQueue,
                   extraScreenshotQueue, nRuns>>

\* ipcMain.handle("trigger-reset")
TriggerReset ==
    LET after == cancelOngoingRequests(cancelFields)
    IN
    /\ CancelEffect(after)
    /\ screenshotQueue' = <<>>
    /\ extraScreenshotQueue' = <<>>
    /\ view' = "queue"
    /\ lastOp' = "ipc:trigger-reset"
    /\ lastSent' = after.sent \o <<"reset-view", "reset">>
    /\ UNCHANGED <<config, cfgUpdates, modelAdapter, nRuns>>

(* ----------------------------- environment ----------------------------- *)
\* ipcMain.handle("trigger-screenshot"): the screenshot joins the queue of
\* the current view
TakeScreenshot ==
    /\ IF view = "queue"
       THEN /\ Len(screenshotQueue) < MaxShots
            /\ screenshotQueue' = Append(screenshotQueue, Len(screenshotQueue) + 1)
            /\ UNCHANGED extraScreenshotQueue
       ELSE /\ Len(extraScreenshotQueue) < MaxShots
            /\ extraScreenshotQueue' =
                  Append(extraScreenshotQueue, 10 + Len(extraScreenshotQueue) + 1)
            /\ UNCHANGED screenshotQueue
    /\ lastOp' = "other"
    /\ lastSent' = <<"screenshot-taken">>
    /\ aborted' = live(aborted, runs)
    /\ runs' = retire(runs)
    /\ UNCHANGED <<config, cfgUpdates, modelAdapter,
                   currentProcessingAbortController,
                   currentExtraProcessingAbortController, problemInfo,
                   hasDebugged, view, nRuns>>

\* ConfigHelper.updateConfig / updateProviderConfig followed by the
\* 'config-updated' listener of the ProcessingHelper constructor
UpdateConfig(newConfig) ==
    /\ cfgUpdates < MaxConfigUpdates
    /\ newConfig # config
    /\ config' = newConfig
    /\ cfgUpdates' = cfgUpdates + 1
    /\ modelAdapter' = initializeModelAdapter(newConfig, cfgUpdates + 1)
    /\ lastOp' = "other"
    /\ lastSent' = <<>>
    /\ aborted' = live(aborted, runs)
    /\ runs' = retire(runs)
    /\ UNCHANGED <<currentProcessingAbortController,
                   currentExtraProcessingAbortController, problemInfo,
                   hasDebugged, view, screenshotQueue, extraScreenshotQueue,
                   nRuns>>

\* the configs one update can produce: another active provider, or another
\* key or model for one provider
ConfigChanges ==
    { [config EXCEPT !.activeProvider = p] : p \in Providers }
    \cup { [config EXCEPT !.providers[config.activeProvider].apiKey = k] : k \in ApiKeys }
    \cup { [config EXCEPT !.providers[config.activeProvider].model = m] : m \in ModelIds }

(* ------------------ the adapter's own operations ----------------------- *)
\* getAvailableModels()
getAvailableModels(adapter) ==
    IF adapter.provider = "openai" THEN OPENAI_MODELS ELSE CLAUDE_MODELS

\* the ids setModel is called with: listed models of either provider and
\* an unlisted one
SetModelIds == {"gpt-3.5-turbo", "claude-3-haiku-20240307", "unknown-model"}

\* setModel(id) on the adapter the ProcessingHelper holds
SetModel(id) ==
    /\ modelAdapter # NoAdapter
    /\ modelAdapter' =
          [modelAdapter EXCEPT !.model = validateModel(modelAdapter.provider, id)]
    /\ lastOp' = "setModel"
    /\ lastSent' = <<id>>
    /\ aborted' = live(aborted, runs)
    /\ runs' = retire(runs)
    /\ UNCHANGED <<config, cfgUpdates, currentProcessingAbortController,
                   currentExtraProcessingAbortController, problemInfo,
                   hasDebugged, view, screenshotQueue, extraScreenshotQueue, nRuns>>

\* setApiKey(key) on the adapter the ProcessingHelper holds: the client is
\* rebuilt, and is null for an empty key
SetApiKey(key) ==
    /\ modelAdapter # NoAdapter
    /\ modelAdapter' = [modelAdapter EXCEPT !.apiKey = key]
    /\ lastOp' = "setApiKey"
    /\ lastSent' = <<>>
    /\ aborted' = live(aborted, runs)
    /\ runs' = retire(runs)
    /\ UNCHANGED <<config, cfgUpdates, currentProcessingAbortController,
                   currentExtraProcessingAbortController, problemInfo,
                   hasDebugged, view, screenshotQueue, extraScreenshotQueue, nRuns>>

(* ------------------------- prompts by mode ----------------------------- *)
\* A prompt is the literal text of one arm of a switch, named here by the
\* switch and the arm (two arms with the same literal have the same name),
\* together with the values interpolated into it, in order.
PromptFields ==
    {"problem_statement", "constraints", "example_input", "example_output",
     "requirements", "scale", "additional_context", "ui_requirements",
     "functionality", "sample_data", "table_schemas", "expected_output",
     "environment", "command_requirements", "expected_behavior",
     "question_type", "question_text", "options", "context"}

\* the stored ProblemInfo of a coding problem: a statement, and constraints
\* and an example input that may be missing ("" = absent)
PromptInfos ==
    { [f \in PromptFields |->
          CASE f = "problem_statement" -> "two sum"
            [] f = "constraints" -> c
            [] f = "example_input" -> i
            [] OTHER -> ""] : c \in {"", "n <= 10"}, i \in {"", "[2,7]"} }

Languages == {"python", "java"}

\* problemInfo.field || "fallback"
orText(value, fallback) == IF value = "" THEN fallback ELSE value

\* createSystemPromptByMode: the default arm repeats the coding literal
createSystemPromptByMode(mode) ==
    [text |-> IF mode \in {"system_design", "react", "sql", "linux", "certification"}
              THEN <<"extraction", mode>> ELSE <<"extraction", "coding">>,
     values |-> <<>>]

createSolutionPromptByMode(mode, info, language) ==
    CASE mode = "coding" ->
           [text |-> <<"solution", "coding">>,
            values |-> <<info.problem_statement,
                         orText(info.constraints, "No specific constraints provided."),
                         orText(info.example_input, "No example input provided."),
                         orText(info.example_output, "No example output provided."),
                         language, language>>]
      [] mode = "system_design" ->
           [text |-> <<"solution", "system_design">>,
            values |-> <<info.problem_statement,
                         orText(info.requirements, "No specific requirements provided."),
                         orText(info.constraints, "No specific constraints provided."),
                         orText(info.scale, "No specific scale information provided."),
                         orText(info.additional_context, "No additional context provided.")>>]
      [] mode = "react" ->
           [text |-> <<"solution", "react">>,
            values |-> <<info.problem_statement,
                         orText(info.ui_requirements, "No specific UI requirements provided."),
                         orText(info.functionality, "No specific functionality details provided."),
                         orText(info.constraints, "No specific constraints provided."),
                         orText(info.sample_data, "No sample data provided.")>>]
      [] mode = "sql" ->
           [text |-> <<"solution", "sql">>,
            values |-> <<info.problem_statement,
                         orText(info.table_schemas, "No specific table schemas provided."),
                         orText(info.sample_data, "No sample data provided."),
                         orText(info.expected_output, "No specific expected output provided."),
                         orText(info.constraints, "No specific constraints provided.")>>]
      [] mode = "linux" ->
           [text |-> <<"solution", "linux">>,
            values |-> <<info.problem_statement,
                         orText(info.environment, "No specific environment details provided."),
                         orText(info.command_requirements, "No specific command requirements provided."),
                         orText(info.expected_behavior, "No specific expected behavior provided."),
                         orText(info.constraints, "No specific constraints provided.")>>]
      [] mode = "certification" ->
           [text |-> <<"solution", "certification">>,
            values |-> <<orText(info.question_type, "Unknown"),
                         info.question_text,
                         orText(info.options, "No options provided."),
                         orText(info.context, "No specific context provided.")>>]
      [] OTHER ->
           [text |-> <<"solution", "default">>,
            values |-> <<info.problem_statement>>]

\* createDebugSystemPromptByMode: the default arm repeats the coding literal
createDebugSystemPromptByMode(mode) ==
    [text |-> IF mode \in {"system_design", "react", "sql", "linux", "certification"}
              THEN <<"debugSystem", mode>> ELSE <<"debugSystem", "coding">>,
     values |-> <<>>]

createDebugUserPromptByMode(mode, info, language) ==
    CASE mode = "coding" ->
           [text |-> <<"debugUser", "coding">>,
            values |-> <<info.problem_statement, language>>]
      [] mode \in {"system_design", "react", "sql", "linux"} ->
           [text |-> <<"debugUser", mode>>, values |-> <<info.problem_statement>>]
      [] mode = "certification" ->
           [text |-> <<"debugUser", "certification">>, values |-> <<info.question_text>>]
      [] OTHER ->
           [text |-> <<"debugUser", "default">>, values |-> <<>>]

\* the four prompts and the parsed solution a run in the given mode works
\* with, for a stored ProblemInfo, a language and a solution response
PromptsOfMode(mode, info, language, resp) ==
    /\ lastOp' = "prompts"
    /\ lastSent' = <<mode, info, language, resp,
                     [system |-> createSystemPromptByMode(mode),
                      solution |-> createSolutionPromptByMode(mode, info, language),
                      debugSystem |-> createDebugSystemPromptByMode(mode),
                      debugUser |-> createDebugUserPromptByMode(mode, info, language),
                      parsed |-> processSolutionResponse(resp, mode)]>>
    /\ aborted' = live(aborted, runs)
    /\ runs' = retire(runs)
    /\ UNCHANGED <<config, cfgUpdates, modelAdapter,
                   currentProcessingAbortController,
                   currentExtraProcessingAbortController, problemInfo,
                   hasDebugged, view, screenshotQueue, extraScreenshotQueue, nRuns>>

(* --------------------------- testApiKey -------------------------------- *)
\* how the single request of testApiKey can end: answered, refused with an
\* HTTP status, or failed without one (error.status undefined)
ProbeStatuses == {"ok", "401", "429", "500", "502", "503", "none"}

MsgProbeInvalid == "Invalid API key. Please check your key and try again."
MsgProbeRateLimit == "Rate limit exceeded. Your API key has reached its request limit or has insufficient quota."
MsgProbeServer == "server error. Please try again later."
MsgProbeOther == "Error: message of the error"

\* OpenAIAdapter.testApiKey / ClaudeAdapter.testApiKey: the result for the
\* way the request ended; branch names the arm of the if-chain that chose
\* the message
testApiKey(provider, status) ==
    IF status = "ok"
    THEN [valid |-> TRUE, error |-> "", branch |-> "valid"]
    ELSE IF status = "401"
    THEN [valid |-> FALSE, error |-> MsgProbeInvalid, branch |-> "401"]
    ELSE IF status = "429"
    THEN [valid |-> FALSE, error |-> MsgProbeRateLimit, branch |-> "429"]
    ELSE IF status = "500"
    THEN [valid |-> FALSE, error |-> MsgProbeServer, branch |-> "500"]
    ELSE [valid |-> FALSE, error |-> MsgProbeOther, branch |-> "message"]

\* the provider ids and keys the settings window can ask a test for: the two
\* registered providers and one that is not registered
ProbeProviders == Providers \cup {"gemini"}

ProbeKeys == {"sk", "sk-other"}

MsgUnsupportedProvider == "Unsupported model provider"

\* ConfigHelper.testApiKey(apiKey, provider): a fresh adapter of the provider
\* is built with the provider's test model and asked to test the key; a
\* throw of the factory is caught and reported, and no request is sent;
\* nothing the ProcessingHelper holds changes
TestApiKey(provider, key, status) ==
    LET model == IF provider = "openai" THEN "gpt-4o" ELSE "claude-3-haiku-20240307"
        adapter == createModelAdapter(provider, key, model, 0)
        built == adapter # NoAdapter
        result == IF built THEN testApiKey(provider, status)
                  ELSE [valid |-> FALSE, error |-> MsgUnsupportedProvider,
                        branch |-> "factory"]
    IN
    /\ lastOp' = "testApiKey"
    /\ lastSent' = <<provider, IF built THEN status ELSE "unsent", result, adapter, key>>
    /\ aborted' = live(aborted, runs)
    /\ runs' = retire(runs)
    /\ UNCHANGED <<config, cfgUpdates, modelAdapter,
                   currentProcessingAbortController,
                   currentExtraProcessingAbortController, problemInfo,
                   hasDebugged, view, screenshotQueue, extraScreenshotQueue, nRuns>>

(* ------------------- Claude message translation ------------------------ *)
PngPrefix == "data:image/png;base64,"

\* ModelMessage values: string content, or a list of text and image parts
TextMessage(role, text) == [role |-> role, content |-> [isArray |-> FALSE, text |-> text]]

PartsMessage(role, parts) == [role |-> role, content |-> [isArray |-> TRUE, parts |-> parts]]

TextPart(text) == [type |-> "text", text |-> text]

ImagePart(data) == [type |-> "image_url", url |-> <<PngPrefix, data>>]

\* the messages a caller can put in a list: two system messages, the user
\* message of a vision call (text and a screenshot), a user and an
\* assistant message of text
ModelMessages ==
    { TextMessage("system", "be brief"),
      PartsMessage("system", <<TextPart("be exact")>>),
      PartsMessage("user", <<TextPart("solve this"), ImagePart("iVBOR")>>),
      TextMessage("user", "and then?"),
      TextMessage("assistant", "done") }

MaxMessages == 3

MessageLists == UNION { [1..n -> ModelMessages] : n \in 0..MaxMessages }

\* url.replace('data:image/png;base64,', '')
stripPngPrefix(url) == IF url[1] = PngPrefix THEN Tail(url) ELSE url

\* the content of a system message as text: the string, or the texts of the
\* text parts (joined with line breaks)
systemText(content) ==
    IF ~content.isArray
    THEN <<content.text>>
    ELSE LET texts == SelectSeq(content.parts, LAMBDA part : part.type = "text")
         IN [k \in 1..Len(texts) |-> texts[k].text]

claudeContent(content) ==
    IF content.isArray
    THEN [k \in 1..Len(content.parts) |->
            IF content.parts[k].type = "text"
            THEN [type |-> "text", text |-> content.parts[k].text]
            ELSE [type |-> "image",
                  source |-> [type |-> "base64", media_type |-> "image/png",
                              data |-> stripPngPrefix(content.parts[k].url)]]]
    ELSE <<[type |-> "text", text |-> content.text]>>

\* ClaudeAdapter.convertToClaudeMessages
convertToClaudeMessages(messages) ==
    LET systemMessages == SelectSeq(messages, LAMBDA msg : msg.role = "system")
        nonSystemMessages == SelectSeq(messages, LAMBDA msg : msg.role # "system")
    IN [system |-> IF Len(systemMessages) > 0
                   THEN systemText(systemMessages[1].content) ELSE <<>>,
        messages |-> [k \in 1..Len(nonSystemMessages) |->
                        [role |-> IF nonSystemMessages[k].role = "assistant"
                                  THEN "assistant" ELSE "user",
                         content |-> claudeContent(nonSystemMessages[k].content)]]]

\* ClaudeAdapter.complete up to its request: the request body is built from
\* the translated messages
ClaudeRequest(messages) ==
    /\ lastOp' = "claudeRequest"
    /\ lastSent' = <<messages, convertToClaudeMessages(messages)>>
    /\ aborted' = live(aborted, runs)
    /\ runs' = retire(runs)
    /\ UNCHANGED <<config, cfgUpdates, modelAdapter,
                   currentProcessingAbortController,
                   currentExtraProcessingAbortController, problemInfo,
                   hasDebugged, view, screenshotQueue, extraScreenshotQueue, nRuns>>

(* ------------------------------ the system ----------------------------- *)
Next ==
    \/ ProcessScreenshots
    \/ IpcProcessScreenshots
    \/ \E r \in RunIds, ok \in BOOLEAN : LoadImages(r, ok)
    \/ \E r \in RunIds, outcome \in ProviderOutcomes,
          resp \in ExtractionResponses \cup {<<>>} :
          VisionReturns(r, outcome, resp, Min(attemptsBefore(outcome)))
    \/ \E r \in RunIds, outcome \in ProviderOutcomes :
          CompleteReturns(r, outcome, IF outcome = "ok" THEN <<"prose">> ELSE <<>>,
                          "coding", Min(attemptsBefore(outcome)))
    \/ \E r \in RunIds, outcome \in ProviderOutcomes :
          DebugReturns(r, outcome, Min(attemptsBefore(outcome)))
    \/ CancelOngoingRequests
    \/ TriggerReset
    \/ TakeScreenshot
    \/ \E c \in ConfigChanges : UpdateConfig(c)

Spec == Init /\ [][Next]_vars

(* ------------- both queues at once: a narrower environment ------------- *)
\* processScreenshots, with the run bound of SpecQueues
ProcessScreenshotsQueues ==
    /\ StartRun(MaxRunsQueues)
    /\ lastOp' = "other"

\* The behaviours of Spec in which the config is left alone, the images
\* load, and the provider answers ok or 429: enough runs fit in for a
\* primary and a secondary run to hold their controllers at the same time.
NextQueues ==
    \/ ProcessScreenshotsQueues
    \/ \E r \in RunIds : LoadImages(r, TRUE)
    \/ \E r \in RunIds, outcome \in {"ok", "429"} :
          VisionReturns(r, outcome,
                        IF outcome = "ok" THEN <<"fence:json", "{..}", "fence">> ELSE <<>>,
                        Min(attemptsBefore(outcome)))
    \/ \E r \in RunIds : CompleteReturns(r, "ok", <<"prose">>, "coding", 0)
    \/ \E r \in RunIds : DebugReturns(r, "ok", 0)
    \/ CancelOngoingRequests
    \/ TakeScreenshot

SpecQueues == Init /\ [][NextQueues]_vars

\* The same program with a fixed config, and every solution response and
\* interview mode
NextParsing ==
    \/ ProcessScreenshots
    \/ \E r \in RunIds : LoadImages(r, TRUE)
    \/ \E r \in RunIds, outcome \in ProviderOutcomes,
          resp \in ExtractionResponses \cup {<<>>} :
          VisionReturns(r, outcome, resp, Min(attemptsBefore(outcome)))
    \/ \E r \in RunIds, outcome \in ProviderOutcomes,
          resp \in SolutionResponses, mode \in InterviewModes :
          CompleteReturns(r, outcome, resp, mode, Min(attemptsBefore(outcome)))
    \/ \E r \in RunIds, outcome \in ProviderOutcomes :
          DebugReturns(r, outcome, Min(attemptsBefore(outcome)))
    \/ CancelOngoingRequests
    \/ TakeScreenshot

SpecParsing == Init /\ [][NextParsing]_vars

\* The same program with a fixed config, and every number of requests the
\* SDK client re-issues during a call
NextRetries ==
    \/ ProcessScreenshots
    \/ \E r \in RunIds : LoadImages(r, TRUE)
    \/ \E r \in RunIds, outcome \in ProviderOutcomes, attempts \in 0..maxRetries :
          VisionReturns(r, outcome,
                        IF outcome = "ok" THEN <<"fence:json", "{..}", "fence">> ELSE <<>>,
                        attempts)
    \/ \E r \in RunIds, outcome \in ProviderOutcomes, attempts \in 0..maxRetries :
          CompleteReturns(r, outcome, IF outcome = "ok" THEN <<"prose">> ELSE <<>>,
                          "coding", attempts)
    \/ \E r \in RunIds, outcome \in ProviderOutcomes, attempts \in 0..maxRetries :
          DebugReturns(r, outcome, attempts)
    \/ CancelOngoingRequests
    \/ TakeScreenshot

SpecRetries == Init /\ [][NextRetries]_vars

\* The program with a fixed config, together with the operations of the
\* adapter it holds (setModel, setApiKey)
NextAdapters ==
    \/ ProcessScreenshots
    \/ \E r \in RunIds : LoadImages(r, TRUE)
    \/ \E r \in RunIds, outcome \in {"ok", "401"} :
          VisionReturns(r, outcome,
                        IF outcome = "ok" THEN <<"fence:json", "{..}", "fence">> ELSE <<>>,
                        0)
    \/ \E r \in RunIds : CompleteReturns(r, "ok", <<"prose">>, "coding", 0)
    \/ TakeScreenshot
    \/ \E id \in SetModelIds : SetModel(id)
    \/ \E key \in ApiKeys : SetApiKey(key)
    \/ \E p \in Providers : UpdateConfig([config EXCEPT !.activeProvider = p])

SpecAdapters == Init /\ [][NextAdapters]_vars

\* the operations of the settings window: keys are tested and the config is
\* changed, screenshots may be taken meanwhile
NextProbe ==
    \/ \E p \in ProbeProviders, key \in ProbeKeys, status \in ProbeStatuses :
          TestApiKey(p, key, status)
    \/ \E c \in ConfigChanges : UpdateConfig(c)
    \/ \E id \in SetModelIds : SetModel(id)
    \/ \E key \in ApiKeys : SetApiKey(key)
    \/ TakeScreenshot

SpecProbe == Init /\ [][NextProbe]_vars

\* the prompt builders and the response processing applied to every mode
NextPrompts ==
    \E mode \in InterviewModes, info \in PromptInfos, language \in Languages,
       resp \in SolutionResponses \cup TextResponses :
        PromptsOfMode(mode, info, language, resp)

SpecPrompts == Init /\ [][NextPrompts]_vars

\* the Claude adapter's translation applied to every message list
NextMessages == \E messages \in MessageLists : ClaudeRequest(messages)

SpecMessages == Init /\ [][NextMessages]_vars

\* The program with a fixed config, in which whatever a run awaits settles:
\* the image loading of a run in flight ends (the images load or the
\* loading throws) and each adapter call returns or throws
NextLive ==
    \/ ProcessScreenshots
    \/ \E r \in RunIds, ok \in BOOLEAN : LoadImages(r, ok)
    \/ \E r \in RunIds, outcome \in ProviderOutcomes,
          resp \in ExtractionResponses \cup {<<>>} :
          VisionReturns(r, outcome, resp, Min(attemptsBefore(outcome)))
    \/ \E r \in RunIds, outcome \in ProviderOutcomes :
          CompleteReturns(r, outcome, IF outcome = "ok" THEN <<"prose">> ELSE <<>>,
                          "coding", Min(attemptsBefore(outcome)))
    \/ \E r \in RunIds, outcome \in ProviderOutcomes :
          DebugReturns(r, outcome, Min(attemptsBefore(outcome)))
    \/ CancelOngoingRequests
    \/ TriggerReset
    \/ TakeScreenshot

\* every promise a run awaits settles: Promise.all over the images, and the
\* request of Adapter.vision / Adapter.complete
Settles ==
    \A r \in RunIds :
        /\ WF_vars(\E ok \in BOOLEAN : LoadImages(r, ok))
        /\ WF_vars(\E outcome \in ProviderOutcomes,
                      resp \in ExtractionResponses \cup {<<>>} :
                      VisionReturns(r, outcome, resp, Min(attemptsBefore(outcome))))
        /\ WF_vars(\E outcome \in ProviderOutcomes :
                      CompleteReturns(r, outcome,
                                      IF outcome = "ok" THEN <<"prose">> ELSE <<>>,
                                      "coding", Min(attemptsBefore(outcome))))
        /\ WF_vars(\E outcome \in ProviderOutcomes :
                      DebugReturns(r, outcome, Min(attemptsBefore(outcome))))

SpecLive == Init /\ [][NextLive]_vars /\ Settles

(* ============================== properties ============================= *)
SuccessEvents == {"SOLUTION_SUCCESS", "DEBUG_SUCCESS"}
FailureEvents == {"INITIAL_SOLUTION_ERROR", "DEBUG_ERROR", "API_KEY_INVALID"}
CallPcs == {"extracting", "solving", "debugging"}

\* the entries a run logged after position n of its trace
After(r, n) == {runs[r].log[i] : i \in (n + 1)..Len(runs[r].log)}

\* how often entries of the set occur in the trace of run r
Count(r, entries) == Cardinality({i \in 1..Len(runs[r].log) : runs[r].log[i] \in entries})

\* C1: no two runs are in flight at once on the same queue (a run that
\* starts while another is in flight on its queue first aborts that one,
\* which ends it)
C1_OneRunPerQueue ==
    \A r1, r2 \in RunIds :
        (r1 # r2 /\ InFlight(r1) /\ InFlight(r2)) => runs[r1].kind # runs[r2].kind

\* C2: a run that was Extracting, Solving or Debugging when
\* cancelOngoingRequests was invoked emits no success and no failure event
\* after that cancel, and ends as Cancelled
C2_CancelSuppressesEvents ==
    \A r \in RunIds :
        runs[r].cancelledIn \in CallPcs =>
            /\ After(r, runs[r].cancelMark) \cap (SuccessEvents \cup FailureEvents) = {}
            /\ runs[r].pc = "done" => runs[r].outcome = "cancelled"

\* C3: when the controller of a run is aborted while its Adapter.vision or
\* Adapter.complete call is pending, that call ends with a cancellation
\* outcome: the run goes no further (no later call, nothing stored, no
\* success) and what it reports is the cancellation
C3_AbortEndsPendingCall ==
    \A r \in RunIds :
        (runs[r].abortedIn \in CallPcs /\ runs[r].pc # runs[r].abortedIn) =>
            /\ runs[r].pc = "done"
            /\ runs[r].outcome = "cancelled"

\* C4: every adapter call of a run is made on the adapter the run started
\* with, whatever config change happens meanwhile; and the orchestrator's
\* adapter is always the one built from the current config, so that a run
\* started after a change uses the new one
C4_AdapterPinned ==
    /\ \A r \in RunIds :
          /\ "vision" \in After(r, 0) => runs[r].visionAdapter = runs[r].startAdapter
          /\ "request" \in After(r, 0) /\ runs[r].pc \in {"solving", "done"}
             /\ runs[r].kind = "primary" /\ runs[r].completeAdapter # NoAdapter
                => runs[r].completeAdapter = runs[r].visionAdapter
    /\ modelAdapter = initializeModelAdapter(config, cfgUpdates)

\* C5: the queues are cancelled independently.  A cancel that cancels the
\* primary run (its controller is live) neither aborts the controller of a
\* secondary run in flight nor changes hasDebugged; a cancel that cancels
\* the secondary run neither aborts the controller of a primary run in
\* flight nor clears ProblemInfo.
C5_QueuesCancelledIndependently ==
    [][ lastOp' = "cancel" =>
          /\ \A s \in RunIds :
                (runs[s].kind = "secondary" /\ InFlight(s)
                 /\ currentProcessingAbortController # 0)
                => /\ (s \in aborted' => s \in aborted)
                   /\ hasDebugged' = hasDebugged
          /\ \A p \in RunIds :
                (runs[p].kind = "primary" /\ InFlight(p)
                 /\ currentExtraProcessingAbortController # 0)
                => /\ (p \in aborted' => p \in aborted)
                   /\ problemInfo' = problemInfo ]_vars

NoRunInFlight == \A r \in RunIds : ~InFlight(r)

\* C6: cancel is idempotent: in every reachable state, a second
\* cancelOngoingRequests made directly after a first one leaves both
\* controllers, the aborted controllers, ProblemInfo and hasDebugged as the
\* first left them, and sends nothing, so the events of the two calls are
\* the events of the first
C6_CancelIdempotent ==
    LET once == cancelOngoingRequests(cancelFields)
        twice == cancelOngoingRequests([once EXCEPT !.sent = <<>>])
    IN /\ twice.primary = once.primary
       /\ twice.extra = once.extra
       /\ twice.aborted = once.aborted
       /\ twice.problemInfo = once.problemInfo
       /\ twice.hasDebugged = once.hasDebugged
       /\ twice.sent = <<>>
       /\ once.sent \o twice.sent = once.sent

\* a cancel that sent nothing, made while a run whose controller an earlier
\* cancel aborted is still where that cancel found it
C6_Witness ==
    /\ lastOp = "cancel"
    /\ lastSent = <<>>
    /\ \E r \in RunIds :
          /\ InFlight(r)
          /\ runs[r].abortedIn = runs[r].pc
          /\ r \in aborted

C8_CancelledRunWritesNothing ==
    \A r \in RunIds :
        runs[r].cancelledIn \in CallPcs =>
            After(r, runs[r].cancelMark)
                \cap {"setProblemInfo", "setProblemInfo:null", "setHasDebugged"} = {}

\* C9: a run started with no adapter, and none to be had from the config,
\* has ended at once: API_KEY_INVALID is all it did (no start or progress
\* event, no adapter call), and it holds no controller
C9_NotConfiguredFailsAtOnce ==
    \A r \in RunIds :
        (runs[r].pc \notin {"idle", "retired"} /\ runs[r].startAdapter = NoAdapter) =>
            /\ runs[r].pc = "done"
            /\ runs[r].log = <<"API_KEY_INVALID">>
            /\ currentProcessingAbortController # r
            /\ currentExtraProcessingAbortController # r

C9_Witness ==
    \E r \in RunIds :
        /\ runs[r].pc = "done"
        /\ runs[r].startAdapter = NoAdapter
        /\ runs[r].log = <<"API_KEY_INVALID">>
        /\ initializeModelAdapter(config, cfgUpdates) = NoAdapter

\* C10: a primary run whose extraction response is not the expected record
\* once the fence markers are stripped ends Failed with the parse-error
\* message, having made no Adapter.complete call, stored no ProblemInfo,
\* sent no PROBLEM_EXTRACTED and reported exactly one failure event
C10_ParseFailureFailsRun ==
    \A r \in RunIds :
        (runs[r].extraction # <<>> /\ runs[r].extraction \notin RecordResponses) =>
            /\ runs[r].pc = "done"
            /\ runs[r].outcome = "failed"
            /\ runs[r].error = MsgParse
            /\ After(r, 0) \cap {"complete", "setProblemInfo", "setProblemInfo:null",
                                 "PROBLEM_EXTRACTED"} = {}
            /\ Count(r, FailureEvents) = 1
            /\ Count(r, SuccessEvents) = 0

\* C11: whatever the content of the response to the solution-pass
\* Adapter.complete call and whatever the mode, the response is parsed into
\* a SolutionResult (missing sections filled with the defaults) and the
\* run has Succeeded
C11_SolutionParseNeverFails ==
    \A r \in RunIds :
        runs[r].completeOutcome = "ok" =>
            /\ runs[r].pc = "done"
            /\ runs[r].outcome = "succeeded"
            /\ runs[r].solution.code # <<"none">>
            /\ runs[r].solution.thoughts # <<>>
            /\ Count(r, {"SOLUTION_SUCCESS"}) > 0
            /\ Count(r, FailureEvents) = 0

\* a run that Succeeded on an empty solution response, with the default
\* thoughts
C11_Witness ==
    \E r \in RunIds :
        /\ runs[r].completeOutcome = "ok"
        /\ runs[r].solutionResponse = <<>>
        /\ runs[r].outcome = "succeeded"
        /\ runs[r].solution.code = <<>>
        /\ Len(runs[r].solution.thoughts) = 1

\* position of the first entry of run r's trace that is in entries (0: none)
Pos(r, entries) ==
    LET at == {i \in 1..Len(runs[r].log) : runs[r].log[i] \in entries}
    IN IF at = {} THEN 0 ELSE Min(at)

\* run r's trace has an entry of a, and its first entry of b comes later
Before(r, a, b) == Pos(r, a) > 0 /\ Pos(r, a) < Pos(r, b)

\* C12: a primary run calls Adapter.complete only after its Adapter.vision
\* call returned and the parsed, non-empty ProblemInfo was stored, and it
\* reports success only after both calls returned, in that order
C12_PrimaryRunOrder ==
    \A r \in RunIds :
        runs[r].kind = "primary" =>
            /\ Pos(r, {"complete"}) > 0 =>
                  /\ runs[r].visionOutcome = "ok"
                  /\ runs[r].extraction # <<"null">>
                  /\ Before(r, {"vision"}, {"setProblemInfo"})
                  /\ Before(r, {"setProblemInfo"}, {"complete"})
                  /\ Pos(r, {"setProblemInfo:null"}) = 0
            /\ runs[r].pc = "solving" => Pos(r, {"complete"}) > 0
            /\ runs[r].pc = "extracting" =>
                  Pos(r, {"vision"}) > 0 /\ Pos(r, {"complete"}) = 0
            /\ runs[r].pc = "loading" => Pos(r, {"vision", "complete"}) = 0
            /\ (runs[r].outcome = "succeeded" \/ Pos(r, SuccessEvents) > 0) =>
                  /\ runs[r].completeOutcome = "ok"
                  /\ Before(r, {"complete"}, SuccessEvents)

\* a primary run that Succeeded
C12_Witness ==
    \E r \in RunIds :
        /\ runs[r].kind = "primary"
        /\ runs[r].outcome = "succeeded"
        /\ Pos(r, {"SOLUTION_SUCCESS"}) > Pos(r, {"complete"})

TerminalEvents == SuccessEvents \cup FailureEvents

\* C13: the events of a run on a non-empty batch that no cancel touched
\* are sent in causal order (progress, then PROBLEM_EXTRACTED, then
\* progress, then the terminal event); the run sends at most one terminal
\* event, exactly one once it has ended, and nothing after it
C13_OneTerminalEventLast ==
    \A r \in RunIds :
        LET sent == Sent(runs[r].log)
        IN (runs[r].images # <<>> /\ runs[r].cancelMark = 0) =>
           /\ Count(r, TerminalEvents) <= 1
           /\ runs[r].pc = "done" =>
                 /\ Count(r, TerminalEvents) = 1
                 /\ sent[Len(sent)] \in TerminalEvents
           /\ Pos(r, {"PROBLEM_EXTRACTED"}) > 0 =>
                 /\ Before(r, {"status20"}, {"PROBLEM_EXTRACTED"})
                 /\ Pos(r, {"status60"}) > 0 =>
                       Before(r, {"PROBLEM_EXTRACTED"}, {"status60"})
           /\ Pos(r, TerminalEvents) > 0 =>
                 \A i \in 1..Len(runs[r].log) :
                     runs[r].log[i] \in {"status20", "status30", "status40", "status60",
                                         "status100", "PROBLEM_EXTRACTED"}
                         => i < Pos(r, TerminalEvents)

\* C14: no automatic retry: a primary run makes at most one Adapter.vision
\* and one Adapter.complete call, a secondary run at most one Adapter.vision
\* call, and each call issues one provider request: once a request was
\* answered with a failure no further request is issued for the run
C14_NoAutomaticRetry ==
    \A r \in RunIds :
        /\ Count(r, {"vision"}) <= 1
        /\ Count(r, {"complete"}) <= (IF runs[r].kind = "primary" THEN 1 ELSE 0)
        /\ Count(r, {"request"}) <= Count(r, {"vision", "complete"})
        /\ (runs[r].visionOutcome \notin {"", "ok"}) => Count(r, {"request"}) = 1

C16_SuspendsOnlyAtAdapterCalls ==
    [][ \A r \in RunIds :
          (InFlight(r) /\ runs[r].pc \notin CallPcs) => runs'[r].pc # runs[r].pc ]_vars

\* C17 as stated: for both adapters, vision() on a model without the
\* vision capability (gpt-3.5-turbo is the only one listed) fails with the
\* unsupported-capability error, before any provider request: a run whose
\* vision call was made on such an adapter has ended Failed with that error
\* and no request
C17_NoVisionFailsUnsupported ==
    \A r \in RunIds :
        (Pos(r, {"vision"}) > 0 /\ runs[r].visionAdapter.model = "gpt-3.5-turbo") =>
            /\ runs[r].pc = "done"
            /\ runs[r].outcome = "failed"
            /\ runs[r].error = MsgNoVision
            /\ Count(r, {"request"}) = 0

\* C17 amended: vision() on a model without the vision capability fails
\* before any provider request, with the unsupported-capability error when
\* the adapter has a client and with the client-not-initialised error when
\* it is an OpenAI adapter without one (empty key); the run has ended Failed
\* with that error and no request
C17_NoVisionFailsBeforeRequest ==
    \A r \in RunIds :
        (Pos(r, {"vision"}) > 0 /\ runs[r].visionAdapter.model = "gpt-3.5-turbo") =>
            /\ runs[r].pc = "done"
            /\ runs[r].outcome = "failed"
            /\ runs[r].error = (IF runs[r].visionAdapter.apiKey = ""
                                THEN MsgClientNotInitialized ELSE MsgNoVision)
            /\ Count(r, {"request"}) = 0
            /\ Count(r, FailureEvents) = 1

\* a run that failed on the missing capability without a request
C17_Witness ==
    \E r \in RunIds :
        /\ runs[r].pc = "done"
        /\ Pos(r, {"vision"}) > 0
        /\ runs[r].error = MsgNoVision
        /\ Count(r, {"request"}) = 0

\* C18: a 401 answer to any adapter call of a run (extraction or solution
\* pass of a primary run, the call of a secondary run) fails the run and is
\* surfaced as API_KEY_INVALID, on both queues alike; a 429 answer fails
\* the run with the rate-limit message in a failure event
C18_UnauthorizedPromptsReconfiguration ==
    \A r \in RunIds :
        /\ (runs[r].visionOutcome = "401" \/ runs[r].completeOutcome = "401") =>
              /\ runs[r].pc = "done"
              /\ runs[r].outcome = "failed"
              /\ Count(r, {"API_KEY_INVALID"}) = 1
        /\ (runs[r].visionOutcome = "429" \/ runs[r].completeOutcome = "429") =>
              /\ runs[r].pc = "done"
              /\ runs[r].outcome = "failed"
              /\ runs[r].error = MsgRateLimit
              /\ Count(r, {"INITIAL_SOLUTION_ERROR", "DEBUG_ERROR"}) = 1

\* C19: a config update is persisted and notified exactly once, and after the
\* notification the adapter is a fresh one built from the persisted config:
\* absent exactly when the active provider's key is empty, and otherwise of
\* the active provider, with its key and its configured model, or with the
\* provider's default model when the configured one is not in its list.
C19_AdapterRebuiltOnConfigChange ==
    [][cfgUpdates' # cfgUpdates =>
        LET p  == config'.activeProvider
            pc == config'.providers[p]
            known == IF p = "openai" THEN OPENAI_MODELS ELSE CLAUDE_MODELS
            fallback == IF p = "openai" THEN "gpt-4o"
                        ELSE "claude-3-sonnet-20240229"
        IN  /\ cfgUpdates' = cfgUpdates + 1
            /\ (modelAdapter' = NoAdapter) <=> (pc.apiKey = "")
            /\ pc.apiKey # "" =>
                  /\ modelAdapter'.provider = p
                  /\ modelAdapter'.apiKey = pc.apiKey
                  /\ modelAdapter'.model =
                        (IF pc.model \in known THEN pc.model ELSE fallback)
                  /\ modelAdapter'.gen = cfgUpdates']_vars

\* a notification after which the adapter holds the default model because the
\* configured one is unrecognised
C19_Witness ==
    /\ cfgUpdates > 0
    /\ config.providers[config.activeProvider].model = "unknown-model"
    /\ modelAdapter # NoAdapter
    /\ modelAdapter.gen = cfgUpdates
    /\ modelAdapter.model = "gpt-4o"

\* C20: the model an adapter of either provider holds, after construction and
\* after any setModel calls, is one of the models it lists; a setModel with an
\* id outside the list leaves the provider's default (gpt-4o,
\* claude-3-sonnet-20240229), one with a listed id leaves that id, and the call
\* always completes.
C20_ModelAlwaysListed ==
    /\ modelAdapter # NoAdapter =>
          modelAdapter.model \in getAvailableModels(modelAdapter)
    /\ lastOp = "setModel" =>
          LET id == lastSent[1]
              fallback == IF modelAdapter.provider = "openai" THEN "gpt-4o"
                          ELSE "claude-3-sonnet-20240229"
          IN  /\ modelAdapter.provider \in Providers
              /\ modelAdapter.model =
                    (IF id \in getAvailableModels(modelAdapter) THEN id ELSE fallback)

\* a Claude adapter that was given an OpenAI id and holds its default
C20_Witness ==
    /\ lastOp = "setModel"
    /\ lastSent = <<"gpt-3.5-turbo">>
    /\ modelAdapter.provider = "claude"
    /\ modelAdapter.model = "claude-3-sonnet-20240229"

\* C21: an adapter whose key is empty is disabled: a vision or complete call
\* made on it fails with the client-not-initialised error and no provider
\* request is issued for it; a call made on an adapter whose key is not empty
\* (and, for vision, whose model has the capability) issues its request.
C21_EmptyKeyDisablesAdapter ==
    \A r \in RunIds :
        LET log == runs[r].log
            v == Pos(r, {"vision"})
            c == Pos(r, {"complete"})
        IN  /\ (v > 0 /\ runs[r].visionAdapter.apiKey = "") =>
                  /\ runs[r].pc = "done"
                  /\ runs[r].outcome = "failed"
                  /\ runs[r].error = MsgClientNotInitialized
                  /\ Count(r, {"request"}) = 0
            /\ (c > 0 /\ runs[r].completeAdapter.apiKey = "") =>
                  /\ runs[r].pc = "done"
                  /\ runs[r].outcome = "failed"
                  /\ runs[r].error = MsgClientNotInitialized
                  /\ "request" \notin After(r, c)
            /\ (v > 0 /\ runs[r].visionAdapter.apiKey # ""
                      /\ runs[r].visionAdapter.model # "gpt-3.5-turbo") =>
                  /\ Len(log) > v
                  /\ log[v + 1] = "request"
            /\ (c > 0 /\ runs[r].completeAdapter.apiKey # "") =>
                  /\ Len(log) > c
                  /\ log[c + 1] = "request"

\* a run whose vision call was issued by a Claude adapter with a key and
\* whose complete call then failed on the same adapter after its key was
\* set to the empty string
C21_Witness ==
    \E r \in RunIds :
        /\ runs[r].visionAdapter.provider = "claude"
        /\ runs[r].visionAdapter.apiKey # ""
        /\ runs[r].completeAdapter.provider = "claude"
        /\ runs[r].completeAdapter.apiKey = ""
        /\ runs[r].error = MsgClientNotInitialized
        /\ Count(r, {"request"}) = 1

\* C22: testApiKey classifies the way its request ended: an answer gives
\* valid; status 401 the invalid-key message; 429 the rate-limit message;
\* every 5xx status (500, 502, 503) the server-error message; anything else
\* the unknown-error message; for both adapters alike.
C22_ProbeClassifies ==
    lastOp = "testApiKey" =>
        LET status == lastSent[2]
            result == lastSent[3]
        IN  /\ result.valid <=> (status = "ok")
            /\ status = "401" => result.error = MsgProbeInvalid
            /\ status = "429" => result.error = MsgProbeRateLimit
            /\ status \in {"500", "502", "503"} => result.error = MsgProbeServer
            /\ status = "none" => result.error = MsgProbeOther

\* C23: the factory builds an OpenAI adapter for 'openai' and a Claude
\* adapter for 'claude', each holding the key it was given and the validated
\* model; for any other provider id it builds nothing and the caller gets the
\* unsupported-provider error, with no request sent.
C23_FactoryClosedSet ==
    /\ lastOp = "testApiKey" =>
          LET provider == lastSent[1]
              result == lastSent[3]
              adapter == lastSent[4]
              key == lastSent[5]
          IN  /\ provider = "openai" =>
                    adapter = [provider |-> "openai", apiKey |-> key,
                               model |-> "gpt-4o", gen |-> 0]
              /\ provider = "claude" =>
                    adapter = [provider |-> "claude", apiKey |-> key,
                               model |-> "claude-3-haiku-20240307", gen |-> 0]
              /\ provider \notin {"openai", "claude"} =>
                    /\ adapter = NoAdapter
                    /\ ~result.valid
                    /\ result.error = MsgUnsupportedProvider
                    /\ lastSent[2] = "unsent"
    /\ modelAdapter # NoAdapter =>
          /\ modelAdapter.provider \in {"openai", "claude"}
          /\ modelAdapter.provider = "openai" => modelAdapter.model \in OPENAI_MODELS
          /\ modelAdapter.provider = "claude" => modelAdapter.model \in CLAUDE_MODELS

\* a key test for a provider that is not registered: nothing was built
C23_Witness ==
    /\ lastOp = "testApiKey"
    /\ lastSent[1] = "gemini"
    /\ lastSent[4] = NoAdapter
    /\ lastSent[3].error = MsgUnsupportedProvider

\* C24: for a mode outside the six recognised ones, the extraction system
\* prompt, the solution prompt, the debug system prompt, the debug user
\* prompt and the parsed solution are those of the coding mode for the same
\* ProblemInfo, language and response.
C24_UnknownModeIsCoding ==
    (lastOp = "prompts" /\ lastSent[1] \notin
        {"coding", "system_design", "react", "sql", "linux", "certification"}) =>
        LET info == lastSent[2]
            language == lastSent[3]
            resp == lastSent[4]
            got == lastSent[5]
        IN  /\ got.system = createSystemPromptByMode("coding")
            /\ got.solution = createSolutionPromptByMode("coding", info, language)
            /\ got.debugSystem = createDebugSystemPromptByMode("coding")
            /\ got.debugUser = createDebugUserPromptByMode("coding", info, language)
            /\ got.parsed = processSolutionResponse(resp, "coding")

\* C25: in every mode, a solution response without a fenced code block is
\* itself, whole, the code/answer field of the result; so the field is not
\* empty when the response is not.
C25_NoFenceWholeResponse ==
    (lastOp = "prompts" /\ Cardinality(fences(lastSent[4])) < 2) =>
        /\ lastSent[5].parsed.data.code = lastSent[4]
        /\ lastSent[4] # <<>> => lastSent[5].parsed.data.code # <<>>

\* C26: in every mode, the code field of the result for a response with a
\* fenced code block is the inner text of the first fenced block, whatever
\* surrounds it.
C26_FencedBlockIsCode ==
    (lastOp = "prompts" /\ Cardinality(fences(lastSent[4])) >= 2) =>
        LET resp == lastSent[4]
            open == Min(fences(resp))
            close == Min(fences(resp) \ {open})
        IN lastSent[5].parsed.data.code = SubSeq(resp, open + 1, close - 1)

\* the tokens of a text
Tokens(text) == {text[i] : i \in 1..Len(text)}

\* the text on the line of the first "Time complexity:" label, after the label
timeLine(resp) ==
    LET labels == {i \in 1..Len(resp) : resp[i] = "Time complexity:"}
    IN IF labels = {} \/ Min(labels) = Len(resp)
       THEN <<>>
       ELSE trim(SubSeq(resp, Min(labels) + 1, lineEnd(resp, Min(labels) + 1)))

\* C27: in the coding mode, when the response has the "Time complexity"
\* label followed by text, the time_complexity of the result keeps the
\* notation and the words of that text, whatever comes after it (a space
\* complexity section, other prose, the end of the response with or without
\* a line break); the default statement stands only for responses without
\* the label.
C27_TimeComplexityKept ==
    (lastOp = "prompts" /\ lastSent[1] = "coding") =>
        LET resp == lastSent[4]
            got == lastSent[5].parsed.data.time_complexity
        IN  /\ timeLine(resp) # <<>> =>
                  Tokens(timeLine(resp)) \ SpaceTokens \subseteq Tokens(got)
            /\ got = DefaultTimeComplexity => "Time complexity:" \notin Tokens(resp)

\* C28: in the coding mode each complexity field is the fixed default when
\* its pattern finds nothing; otherwise it is the trimmed text found, with
\* 'O(n) - ' put before it when the text has no notation, and rebuilt as its
\* first notation, ' - ' and the rest when it has a notation but neither a
\* dash nor 'because'.  So both fields are never empty and always hold a
\* notation.
C28_ComplexityNormalised ==
    (lastOp = "prompts" /\ lastSent[1] \in {"coding", "other"}) =>
        LET resp == lastSent[4]
            data == lastSent[5].parsed.data
            rule(m, got, default) ==
                LET text == trim(m.text)
                    at == {i \in 1..Len(text) : text[i] \in NotationTokens}
                    plain == Tokens(text) \cap {"-", "because"} = {}
                IN  /\ ~m.found => got = default
                    /\ (m.found /\ at = {}) => got = <<"O(n)", "sp", "-", "sp">> \o text
                    /\ (m.found /\ at # {} /\ plain) =>
                          /\ SubSeq(got, 1, 4) = <<text[Min(at)], "sp", "-", "sp">>
                          /\ Tokens(got) \ SpaceTokens = (Tokens(text) \ SpaceTokens) \cup {"-"}
                    /\ (m.found /\ at # {} /\ ~plain) => got = text
                    /\ got # <<>>
                    /\ Tokens(got) \cap NotationTokens # {}
        IN  /\ rule(complexityMatch(resp, "Time complexity:"),
                    data.time_complexity, DefaultTimeComplexity)
            /\ rule(complexityMatch(resp, "Space complexity:"),
                    data.space_complexity, DefaultSpaceComplexity)

\* a result whose time complexity got the dash after its notation and whose
\* space complexity was found with 'because' and left as it was
C28_Witness ==
    /\ lastOp = "prompts"
    /\ lastSent[1] = "coding"
    /\ lastSent[5].parsed.data.time_complexity = <<"O(n)", "sp", "-", "sp", "linear scan">>
    /\ lastSent[5].parsed.data.space_complexity =
          <<"O(1)", "sp", "because", "sp", "in place">>

\* the fallback sentence of each mode's narrative list
fallbackThoughts(mode) ==
    CASE mode = "system_design" -> "System design approach based on requirements"
      [] mode = "react" -> "React component design based on requirements"
      [] mode = "sql" -> "SQL query design based on requirements"
      [] mode = "linux" -> "Linux commands based on requirements"
      [] mode = "certification" -> "Certification answer based on knowledge"
      [] OTHER -> "Solution approach based on efficiency and readability"

\* C29: in every mode and for every response the narrative list of the
\* result is not empty, and a list without any item of text is exactly the
\* one fallback sentence of the mode.
C29_ThoughtsNeverEmpty ==
    lastOp = "prompts" =>
        LET thoughts == lastSent[5].parsed.data.thoughts
        IN  /\ thoughts # <<>>
            /\ \/ thoughts = <<<<fallbackThoughts(lastSent[1])>>>>
               \/ \A k \in 1..Len(thoughts) : thoughts[k] # <<>>

\* C30: the Claude translation of a message list keeps the messages that are
\* not system messages, in their order and with their roles; keeps the parts
\* of each, in order, text as text and image as image with its data; and
\* carries the content of every system message in the system part, whether
\* the list has no, one or several system messages.
C30_ClaudeTranslationFaithful ==
    lastOp = "claudeRequest" =>
        LET messages == lastSent[1]
            out == lastSent[2]
            others == SelectSeq(messages, LAMBDA msg : msg.role # "system")
            samePart(part, got) ==
                IF part.type = "text"
                THEN got.type = "text" /\ got.text = part.text
                ELSE got.type = "image" /\ got.source.data = <<part.url[2]>>
            sameContent(content, got) ==
                IF content.isArray
                THEN /\ Len(got) = Len(content.parts)
                     /\ \A k \in 1..Len(got) : samePart(content.parts[k], got[k])
                ELSE got = <<[type |-> "text", text |-> content.text] >>
        IN  /\ Len(out.messages) = Len(others)
            /\ \A k \in 1..Len(others) :
                  /\ out.messages[k].role = others[k].role
                  /\ sameContent(others[k].content, out.messages[k].content)
            /\ \A k \in 1..Len(messages) :
                  messages[k].role = "system" =>
                      \A t \in Tokens(systemText(messages[k].content)) :
                          t \in Tokens(out.system)

\* the cancellation-handle field of the queue a run works on
handleOf(r) ==
    IF runs[r].kind = "primary" THEN currentProcessingAbortController
    ELSE currentExtraProcessingAbortController

\* C31: whenever a run is in flight on a queue and no cancel was issued
\* since it started, that queue's cancellation-handle field is not null and
\* holds the controller that run created (the one whose signal it passes to
\* its adapter calls); the end of another run on the queue never clears or
\* replaces it
C31_HandleIsRunsController ==
    \A r \in RunIds :
        (InFlight(r) /\ runs[r].cancelledIn = "") => handleOf(r) = r

\* C32: in every reachable state the view is "solutions" only if a
\* ProblemInfo is stored, so that a secondary (debug) run, which is a run
\* started from the solutions view, always finds the problem context
C32_SolutionsViewHasProblemInfo ==
    /\ view = "solutions" => problemInfo # 0
    /\ \A r \in RunIds :
          (runs[r].kind = "secondary" /\ runs[r].pc = "done")
              => runs[r].error # MsgNoProblemInfo

\* no run of the kind is in flight
QueueIdle(kind) == \A r \in RunIds : ~(InFlight(r) /\ runs[r].kind = kind)

\* C33: provided whatever a run awaits settles, every run in flight
\* eventually ends having sent a terminal event (a success or a failure
\* event), whether it succeeds, fails with a reported error or throws while
\* loading its images; and the cancellation handle of a queue is null
\* whenever no run is in flight on that queue
C33_RunsEndAndRelease ==
    /\ \A r \in RunIds :
          InFlight(r) ~> (/\ runs[r].pc = "done"
                          /\ Count(r, SuccessEvents \cup FailureEvents) > 0)
    /\ [](QueueIdle("primary") => currentProcessingAbortController = 0)
    /\ [](QueueIdle("secondary") => currentExtraProcessingAbortController = 0)

\* a debug run has just ended because loading its images threw: it sent
\* DEBUG_ERROR, and the handle of its queue is null again
C33_Witness ==
    \E r \in RunIds :
        /\ runs[r].kind = "secondary"
        /\ runs[r].pc = "done"
        /\ runs[r].error = MsgLoad
        /\ runs[r].log[Len(runs[r].log)] = "DEBUG_ERROR"
        /\ QueueIdle("secondary")
        /\ currentExtraProcessingAbortController = 0

\* C34: a secondary (debug) run started when no ProblemInfo is stored fails
\* with a reported error (DEBUG_ERROR) without making an adapter call and
\* without setting hasDebugged; and a secondary run never writes ProblemInfo
C34_DebugWithoutInfoFails ==
    \A r \in RunIds :
        runs[r].kind = "secondary" =>
            /\ (runs[r].images # <<>> /\ runs[r].infoAtStart = 0
                /\ runs[r].pc \in {"debugging", "done"})
               => /\ runs[r].pc = "done"
                  /\ runs[r].outcome = "failed"
                  /\ runs[r].log[Len(runs[r].log)] = "DEBUG_ERROR"
                  /\ After(r, 0) \cap {"vision", "request", "setHasDebugged"} = {}
            /\ After(r, 0) \cap {"setProblemInfo", "setProblemInfo:null"} = {}

\* the effects C35 names, on the step that invokes processScreenshots
emptyQueueEffects ==
    LET run == runs'[nRuns']
        sent == {lastSent'[i] : i \in 1..Len(lastSent')}
    IN /\ "NO_SCREENSHOTS" \in sent
       /\ sent \cap (SuccessEvents \cup FailureEvents) = {}
       /\ run.pc = "done"
       /\ {run.log[i] : i \in 1..Len(run.log)} \cap {"vision", "complete", "request"} = {}
       /\ currentProcessingAbortController' = currentProcessingAbortController
       /\ currentExtraProcessingAbortController' = currentExtraProcessingAbortController
       /\ problemInfo' = problemInfo
       /\ hasDebugged' = hasDebugged
       /\ view' = view

\* processScreenshots is invoked while the image queue of the current view
\* is empty
invokedOnEmptyQueue ==
    /\ nRuns' = nRuns + 1
    /\ IF view = "queue" THEN screenshotQueue = <<>> ELSE extraScreenshotQueue = <<>>

\* C35 as stated: processScreenshots invoked when the image queue of the
\* current view is empty sends NO_SCREENSHOTS and nothing that reports
\* success or failure, makes no adapter call, creates no cancellation handle,
\* and leaves ProblemInfo, hasDebugged and the view unchanged
C35_EmptyQueueOnlyNotifies ==
    [][ invokedOnEmptyQueue => emptyQueueEffects ]_vars

\* C35 amended: the same, for an invocation that holds or can build a model
\* adapter
C35_EmptyQueueWithAdapterOnlyNotifies ==
    [][ (invokedOnEmptyQueue /\ modelAdapter' # NoAdapter) => emptyQueueEffects ]_vars

\* processScreenshots was invoked from the solutions view with no extra
\* screenshot queued: NO_SCREENSHOTS is all it sent, the ProblemInfo of the
\* solved run is still stored
C35_Witness ==
    /\ nRuns > 0
    /\ runs[nRuns].kind = "secondary"
    /\ runs[nRuns].pc = "done"
    /\ runs[nRuns].log = <<"NO_SCREENSHOTS">>
    /\ lastSent = <<"NO_SCREENSHOTS">>
    /\ view = "solutions"
    /\ problemInfo # 0
    /\ modelAdapter # NoAdapter

ProgressEntries == {"status20", "status30", "status40", "status60", "status100"}

\* the progress events of a run, in the order it sent them
progressOf(r) == SelectSeq(runs[r].log, LAMBDA e : e \in ProgressEntries)

\* p is an initial part of q
isPrefix(p, q) == Len(p) <= Len(q) /\ SubSeq(q, 1, Len(p)) = p

\* C36: within one run the progress percentages sent are strictly
\* increasing (20, 40, 60, 100 for a primary run; 30, 60, 100 for a debug
\* run); progress 100 is sent only in a run that then sends its success
\* event; and no progress event of a run is sent after the run was cancelled
C36_ProgressMonotoneUntilCancel ==
    \A r \in RunIds :
        /\ runs[r].kind = "primary" =>
              isPrefix(progressOf(r), <<"status20", "status40", "status60", "status100">>)
        /\ runs[r].kind = "secondary" =>
              isPrefix(progressOf(r), <<"status30", "status60", "status100">>)
        /\ \A i \in 1..Len(runs[r].log) :
              runs[r].log[i] = "status100" =>
                  \E j \in (i + 1)..Len(runs[r].log) : runs[r].log[j] \in SuccessEvents
        /\ runs[r].cancelledIn # "" =>
              After(r, runs[r].cancelMark) \cap ProgressEntries = {}

====
